---- MODULE Spec2Model ----
(***************************************************************************)
(* Model of the parcel export pipeline of parcelizator-v2:                 *)
(*   - the GeoPackage binary encoder        (GeopkgExporter.js)            *)
(*   - the GeoPackage layer exporter        (GeopkgExporter.js)            *)
(*   - the GeoJSON layer exporter           (GeojsonExporter.js)           *)
(*   - the KML layer exporter               (KmlExporter.js)               *)
(*   - vertex extraction and the WKT parser (WktParser.js)                 *)
(*   - the download functions of the exporters and the sql.js memo         *)
(*                                                                         *)
(* JavaScript values are modelled as follows.  An array is Arr(s) for a    *)
(* sequence s, a coordinate object {lat, lng} is Pt(lat, lng); both carry  *)
(* a tag k, so that reading the property lng of an array yields Undefined  *)
(* as it does in JavaScript.  Numbers are integers; Infinity, -Infinity,   *)
(* undefined and NaN are the reserved integers PosInf, NegInf, Undefined   *)
(* and NaN, which no coordinate takes.  A byte buffer is a sequence of     *)
(* cells: one cell per byte; the eight bytes of a float64 are the cells    *)
(* F64Cell(v, 0) .. F64Cell(v, 7).                                         *)
(***************************************************************************)
EXTENDS Integers, Sequences, FiniteSets, TLC

VARIABLES
    encArgs,        \* arguments of the encoder call under test
    encOut,         \* what the encoder call returned ("none" before the call)
    parcels,        \* the parcel list handed to the exporters
    options,        \* {includePolygons, includePoints}
    gpkgPc,         \* position of generateGpkgWithLayers in its statement list
    db,             \* the sql.js database instance being built
    bbox,           \* the running minX, minY, maxX, maxY of the layer being filled
    timestamp,      \* value of new Date().toISOString() in the running export
    gpkgData,       \* result of generateGpkgWithLayers
    geojsonOut,     \* result of generateGeojsonWithLayers
    kmlOut,         \* result of generateKmlWithLayers
    SQL,            \* the module-level memo of initSqlJs (NoInstance for null)
    inits,          \* the calls of window.initSqlJs so far, each with its outcome
    calls,          \* the download calls so far, each with its position
    active,         \* the download call whose synchronous part is running, or 0
    downloads,      \* the files handed to the browser so far
    wktString,      \* the argument of the parseWkt call under test
    wktOut,         \* what the parseWkt call did ("none" before the call)
    vxGeometry,     \* the argument of the extractVertices call under test
    vxOut,          \* what the extractVertices call returned
    appParcels,     \* App._parcels
    showingPolygons,    \* App._showingPolygons
    showingPoints,  \* App._showingPoints
    appStatus,      \* the type of the status line, "hidden" when it is not shown
    lookups,        \* the parcel lookups of direct adds that are in flight
    gpkgPending,    \* the GeoPackage downloads that are in flight
    addButtonLoading,   \* the loading indicator of the add button
    lastAdd,        \* how the _addParcelToList call of the last step ended
    lastDownload,   \* what the download request of the last step did
    coordinateQueue,    \* App._coordinateQueue
    nextQueueId,    \* App._nextQueueId
    run,            \* the _processQueue call in progress
    lastReport,     \* what the last _processQueue call reported
    debounceTimer,  \* SearchService._debounceTimer (0 for null)
    searches,       \* the geocodeAddressDebounced calls so far
    searchResults,  \* the call whose results are shown, 0 when hidden
    storedConsent,  \* localStorage item parcelizator_analytics_consent
    consentGiven,   \* AnalyticsService._consentGiven
    gaInitialized,  \* AnalyticsService._initialized
    gaConfigured,   \* whether GA_MEASUREMENT_ID holds an id
    scripts,        \* the gtag scripts appended to document.head
    listeners,      \* the click listeners on each banner button
    bannerShown,    \* whether the consent banner is displayed
    everConsented,  \* whether consent was read as true or accepted so far
    eventsSent      \* the events handed to gtag

vars == <<encArgs, encOut, parcels, options, gpkgPc, db, bbox, timestamp,
          gpkgData, geojsonOut, kmlOut, SQL, inits, calls, active, downloads,
          wktString, wktOut, vxGeometry, vxOut,
          appParcels, showingPolygons, showingPoints, appStatus, lookups,
          gpkgPending, lastAdd, lastDownload, coordinateQueue, nextQueueId,
          run, lastReport, debounceTimer, searches, addButtonLoading,
          searchResults, storedConsent, consentGiven, gaInitialized,
          gaConfigured, scripts, listeners, bannerShown, everConsented,
          eventsSent>>

encVars == <<encArgs, encOut>>
expVars == <<parcels, options, gpkgPc, db, bbox, timestamp, gpkgData,
            geojsonOut, kmlOut>>
dlVars == <<SQL, inits, calls, active, downloads>>
wktVars == <<wktString, wktOut>>
vxVars == <<vxGeometry, vxOut>>
listVars == <<appParcels, showingPolygons, showingPoints, appStatus, lookups,
             gpkgPending, addButtonLoading, lastAdd, lastDownload>>
queueVars == <<coordinateQueue, nextQueueId, run>>
appVars == <<listVars, queueVars, lastReport>>
searchVars == <<debounceTimer, searches, searchResults>>
analyticsVars == <<storedConsent, consentGiven, gaInitialized, gaConfigured,
                  scripts, listeners, bannerShown, everConsented, eventsSent>>
restVars == <<vxVars, appVars, searchVars, analyticsVars>>
pureVars == <<encVars, expVars, dlVars, wktVars, vxVars>>

(***************************************************************************)
(* Bounds of the model                                                     *)
(***************************************************************************)
MaxRings == 2
MaxParcels == 2
MaxRingLen == 4
MaxLookups == 2

(***************************************************************************)
(* JavaScript values                                                       *)
(***************************************************************************)
PosInf == 1000
NegInf == -PosInf
Undefined == PosInf + 1
NaN == PosInf + 2

Pt(lat, lng) == [k |-> "pt", lat |-> lat, lng |-> lng]
Arr(s) == [k |-> "arr", items |-> s]
Items(a) == a.items
Length(a) == Len(a.items)

\* coord.lng / coord.lat: a property read; undefined on a value that has no
\* such property (an array)
PropLng(v) == IF v.k = "pt" THEN v.lng ELSE Undefined
PropLat(v) == IF v.k = "pt" THEN v.lat ELSE Undefined

\* a < b on numbers; false when either side is undefined or NaN
JsLt(a, b) == a \notin {Undefined, NaN} /\ b \notin {Undefined, NaN} /\ a < b

\* ToNumber, as applied by DataView.setFloat64 to its argument
ToNumber(v) == IF v = Undefined THEN NaN ELSE v

IsFinite(v) == v \notin {PosInf, NegInf, Undefined, NaN}

(***************************************************************************)
(* ArrayBuffer / DataView                                                  *)
(***************************************************************************)
Byte(v) == [t |-> "u8", v |-> v, k |-> 0]
F64Cell(v, i) == [t |-> "f64", v |-> v, k |-> i]

Uint32LE(v) == << Byte(v % 256), Byte((v \div 256) % 256),
                  Byte((v \div 65536) % 256), Byte((v \div 16777216) % 256) >>
\* two's complement of a signed 32-bit value: for v < 0 the low 31 bits of
\* v + 2^31 with the sign bit set in the last byte
Int32LE(v) ==
    IF v >= 0 THEN Uint32LE(v)
    ELSE LET u == (v + 2147483647) + 1
         IN  << Byte(u % 256), Byte((u \div 256) % 256),
                Byte((u \div 65536) % 256), Byte(((u \div 16777216) % 128) + 128) >>
Float64LE(v) == [i \in 1..8 |-> F64Cell(ToNumber(v), i - 1)]

\* new DataView(new ArrayBuffer(n)): n zero bytes; thrown records a RangeError
NewView(n) == [buffer |-> [i \in 1..n |-> Byte(0)], thrown |-> FALSE]

\* write the cells at byte offset off; a write past the end throws RangeError
WriteAt(view, off, cells) ==
    IF view.thrown THEN view
    ELSE IF off < 0 \/ off + Len(cells) > Len(view.buffer)
         THEN [view EXCEPT !.thrown = TRUE]
         ELSE [view EXCEPT !.buffer =
                  SubSeq(view.buffer, 1, off) \o cells \o
                  SubSeq(view.buffer, off + Len(cells) + 1, Len(view.buffer))]

SetUint8(view, off, v) == WriteAt(view, off, << Byte(v % 256) >>)
SetUint32(view, off, v) == WriteAt(view, off, Uint32LE(v))
SetInt32(view, off, v) == WriteAt(view, off, Int32LE(v))
SetFloat64(view, off, v) == WriteAt(view, off, Float64LE(v))

\* Uint8Array.set(src, at) on a fresh Uint8Array(header.length + wkb.length)
Concat(header, wkb) ==
    LET gpb == [i \in 1..(Len(header) + Len(wkb)) |-> Byte(0)]
        withHeader == header \o SubSeq(gpb, Len(header) + 1, Len(gpb))
    IN  SubSeq(withHeader, 1, Len(header)) \o wkb \o
        SubSeq(withHeader, Len(header) + Len(wkb) + 1, Len(withHeader))

(***************************************************************************)
(* createGpbHeader                                                         *)
(***************************************************************************)
Null == [k |-> "null"]

\* srsId = 4326, the default of createPointGpb and createPolygonGpb
SrsIdWgs84 == 4326

GpbFlags(envelopeType) == (envelopeType * 2) + 1

EnvelopeCellsMinMin(envelope) ==
    Float64LE(envelope.minX) \o Float64LE(envelope.minY) \o
    Float64LE(envelope.maxX) \o Float64LE(envelope.maxY)

\* the order of the envelope doubles: minX, maxX, minY, maxY
EnvelopeCells(envelope) ==
    Float64LE(envelope.minX) \o Float64LE(envelope.maxX) \o
    Float64LE(envelope.minY) \o Float64LE(envelope.maxY)

CreateGpbHeader(srsId, envelope) ==
    LET hasEnvelope == envelope # Null
        envelopeType == IF hasEnvelope THEN 1 ELSE 0
        flags == GpbFlags(envelopeType)
        headerSize == IF hasEnvelope THEN 8 + 32 ELSE 8
        v0 == NewView(headerSize)
        v1 == SetUint8(v0, 0, 71)
        v2 == SetUint8(v1, 1, 80)
        v3 == SetUint8(v2, 2, 0)
        v4 == SetUint8(v3, 3, flags)
        v5 == SetInt32(v4, 4, srsId)
        v6 == IF hasEnvelope
              THEN WriteAt(v5, 8, EnvelopeCells(envelope))
              ELSE v5
    IN  v6

(***************************************************************************)
(* pointToWkb                                                              *)
(***************************************************************************)
PointToWkbYX(lng, lat) ==
    LET v0 == NewView(21)
        v1 == SetUint8(v0, 0, 1)
        v2 == SetUint32(v1, 1, 1)
        v3 == SetFloat64(v2, 5, lat)
        v4 == SetFloat64(v3, 13, lng)
    IN  v4

PointToWkb(lng, lat) ==
    LET v0 == NewView(21)
        v1 == SetUint8(v0, 0, 1)
        v2 == SetUint32(v1, 1, 1)
        v3 == SetFloat64(v2, 5, lng)
        v4 == SetFloat64(v3, 13, lat)
    IN  v4

(***************************************************************************)
(* polygonToWkb                                                            *)
(***************************************************************************)
RECURSIVE SumRingSizes(_, _)
\* rings.forEach((ring) => { totalSize += 4 + ring.length * 16 })
SumRingSizes(rings, i) ==
    IF i > Len(rings) THEN 0
    ELSE 4 + Length(rings[i]) * 16 + SumRingSizes(rings, i + 1)

WkbTotalSizeShort(rings) == 9 + SumRingSizes(Items(rings), 1) - 8

WkbTotalSize(rings) == 9 + SumRingSizes(Items(rings), 1)

WriteCoordLatLng(w, coord) ==
    LET a == SetFloat64(w.view, w.offset, PropLat(coord))
        b == SetFloat64(a, w.offset + 8, PropLng(coord))
    IN  [view |-> b, offset |-> w.offset + 16]

\* setFloat64(offset, coord.lng); offset += 8; setFloat64(offset, coord.lat); offset += 8
\* w = [view, offset]
WriteCoord(w, coord) ==
    LET a == SetFloat64(w.view, w.offset, PropLng(coord))
        b == SetFloat64(a, w.offset + 8, PropLat(coord))
    IN  [view |-> b, offset |-> w.offset + 16]

RECURSIVE WriteCoords(_, _, _)
\* ring.forEach((coord) => { ... })
WriteCoords(w, coords, i) ==
    IF i > Len(coords) THEN w
    ELSE WriteCoords(WriteCoord(w, coords[i]), coords, i + 1)

RECURSIVE WriteRings(_, _, _)
\* rings.forEach((ring) => { setUint32(ring.length); offset += 4; ring.forEach(...) })
WriteRings(w, rings, i) ==
    IF i > Len(rings) THEN w
    ELSE LET a == SetUint32(w.view, w.offset, Length(rings[i]))
             b == WriteCoords([view |-> a, offset |-> w.offset + 4],
                              Items(rings[i]), 1)
         IN  WriteRings(b, rings, i + 1)

\* the run of polygonToWkb: the DataView and the write offset when it ends
PolygonToWkbRun(rings) ==
    LET v0 == NewView(WkbTotalSize(rings))
        v1 == SetUint8(v0, 0, 1)
        v2 == SetUint32(v1, 1, 3)
        v3 == SetUint32(v2, 5, Length(rings))
    IN  WriteRings([view |-> v3, offset |-> 9], Items(rings), 1)

PolygonToWkb(rings) == PolygonToWkbRun(rings).view

(***************************************************************************)
(* createPointGpb                                                          *)
(***************************************************************************)
\* a call's outcome: the bytes returned, or a thrown exception
Returned(bytes) == [status |-> "returned", bytes |-> bytes]
Thrown == [status |-> "thrown", bytes |-> << >>]

CreatePointGpb(lng, lat, srsId) ==
    LET envelope == [minX |-> lng, maxX |-> lng, minY |-> lat, maxY |-> lat]
        header == CreateGpbHeader(srsId, envelope)
        wkb == PointToWkb(lng, lat)
    IN  IF header.thrown \/ wkb.thrown THEN Thrown
        ELSE Returned(Concat(header.buffer, wkb.buffer))

(***************************************************************************)
(* createPolygonGpb                                                        *)
(***************************************************************************)
NoEnvelope == [minX |-> PosInf, minY |-> PosInf, maxX |-> NegInf, maxY |-> NegInf]

\* the four comparisons made for one coordinate
Extend(e, lng, lat) ==
    [minX |-> IF JsLt(lng, e.minX) THEN lng ELSE e.minX,
     maxX |-> IF JsLt(e.maxX, lng) THEN lng ELSE e.maxX,
     minY |-> IF JsLt(lat, e.minY) THEN lat ELSE e.minY,
     maxY |-> IF JsLt(e.maxY, lat) THEN lat ELSE e.maxY]

RECURSIVE ExtendCoords(_, _, _)
ExtendCoords(e, coords, i) ==
    IF i > Len(coords) THEN e
    ELSE ExtendCoords(Extend(e, PropLng(coords[i]), PropLat(coords[i])),
                      coords, i + 1)

RECURSIVE ExtendRings(_, _, _)
ExtendRings(e, rings, i) ==
    IF i > Len(rings) THEN e
    ELSE ExtendRings(ExtendCoords(e, Items(rings[i]), 1), rings, i + 1)

RingsEnvelopeOuterOnly(e, rings) ==
    IF Length(rings) = 0 THEN e ELSE ExtendCoords(e, Items(Items(rings)[1]), 1)

\* rings.forEach((ring) => ring.forEach((coord) => { ... })) from envelope e
RingsEnvelope(e, rings) == ExtendRings(e, Items(rings), 1)

CreatePolygonGpb(rings, srsId) ==
    LET e == RingsEnvelope(NoEnvelope, rings)
        envelope == [minX |-> e.minX, maxX |-> e.maxX, minY |-> e.minY, maxY |-> e.maxY]
        header == CreateGpbHeader(srsId, envelope)
        wkb == PolygonToWkb(rings)
    IN  IF header.thrown \/ wkb.thrown THEN Thrown
        ELSE Returned(Concat(header.buffer, wkb.buffer))

(***************************************************************************)
(* extractVertices (WktParser.js)                                          *)
(***************************************************************************)
\* A coordinate is an integer n, or Nudge + n for the double n + 4e-9
Nudge == 2000
\* value.toFixed(8), the text of the number rounded to 8 decimals: the text
\* of n + 4e-9 is that of n
ToFixed8(v) == IF v >= Nudge THEN v - Nudge ELSE v

\* the key taken from the numbers as they are, without rounding
VertexKeyExact(coord) == <<coord.lat, coord.lng>>

\* `${coord.lat.toFixed(8)},${coord.lng.toFixed(8)}`
VertexKey(coord) == <<ToFixed8(coord.lat), ToFixed8(coord.lng)>>

\* addVertex: acc = [vertices, seen]
AddVertex(acc, coord) ==
    IF VertexKey(coord) \in acc.seen THEN acc
    ELSE [vertices |-> Append(acc.vertices, coord),
          seen |-> acc.seen \cup {VertexKey(coord)}]

RECURSIVE AddVertices(_, _, _)
\* coords.forEach(addVertex)
AddVertices(acc, coords, i) ==
    IF i > Len(coords) THEN acc
    ELSE AddVertices(AddVertex(acc, coords[i]), coords, i + 1)

\* ring.slice(0, -1)
SliceDropLast(ring) == SubSeq(Items(ring), 1, Length(ring) - 1)

RECURSIVE AddOuterRingsSeparately(_, _, _)
\* a new seen set for every polygon
AddOuterRingsSeparately(acc, polygons, i) ==
    IF i > Len(polygons) THEN acc
    ELSE AddOuterRingsSeparately(
             AddVertices([vertices |-> acc.vertices, seen |-> {}],
                         SliceDropLast(Items(polygons[i])[1]), 1),
             polygons, i + 1)

RECURSIVE AddOuterRings(_, _, _)
\* geometry.coordinates.forEach((polygon) => polygon[0].slice(0, -1).forEach(addVertex))
AddOuterRings(acc, polygons, i) ==
    IF i > Len(polygons) THEN acc
    ELSE AddOuterRings(
             AddVertices(acc, SliceDropLast(Items(polygons[i])[1]), 1),
             polygons, i + 1)

ExtractVertices(geometry) ==
    LET start == [vertices |-> << >>, seen |-> {}]
    IN  IF geometry.type = "POLYGON"
        THEN AddVertices(start, SliceDropLast(Items(geometry.coordinates)[1]), 1).vertices
        ELSE IF geometry.type = "MULTIPOLYGON"
        THEN AddOuterRings(start, Items(geometry.coordinates), 1).vertices
        ELSE << >>

(***************************************************************************)
(* The parcel lists handed to the exporters.  A parcel is built as         *)
(* _addParcelToList builds it: {id, geometry, vertices} with vertices =    *)
(* extractVertices(geometry).                                              *)
(***************************************************************************)
Triangle == Arr(<< Pt(1, 2), Pt(3, 2), Pt(3, 0), Pt(1, 2) >>)
Square == Arr(<< Pt(1, -1), Pt(1, 2), Pt(3, 2), Pt(3, -1), Pt(1, -1) >>)
\* a ring that repeats a vertex before closing
Pinched == Arr(<< Pt(4, 5), Pt(6, 5), Pt(4, 5), Pt(6, 7), Pt(4, 5) >>)
\* a second ring reaching outside Triangle and Square on both axes
Outlier == Arr(<< Pt(-2, -3), Pt(5, -3), Pt(5, 8), Pt(-2, -3) >>)

Polygon(rings) == [type |-> "POLYGON", coordinates |-> Arr(rings)]
MultiPolygon(polys) ==
    [type |-> "MULTIPOLYGON",
     coordinates |-> Arr([i \in 1..Len(polys) |-> Arr(polys[i])])]

PolygonGeometries ==
    {Polygon(<< Triangle >>), Polygon(<< Pinched >>), Polygon(<< Square, Outlier >>)}
MultiPolygonGeometries ==
    {MultiPolygon(<< << Triangle >>, << Square, Outlier >> >>),
     MultiPolygon(<< << Pinched >> >>)}
Geometries == PolygonGeometries \cup MultiPolygonGeometries

\* parcel ids are distinct on the list (_addParcelToList refuses a second
\* parcel with an id already on it); an id is a sequence of characters
ParcelIds == << << "1", "4", ".", "7" >>, << "A", "&", "<", "B" >>,
                << "\"", "x", "'", ">" >>, << "9" >> >>

Parcel(id, geometry) ==
    [id |-> id, geometry |-> geometry, vertices |-> ExtractVertices(geometry)]

ParcelLists ==
    UNION {{[i \in 1..n |-> Parcel(ParcelIds[i], g[i])] : g \in [1..n -> Geometries]} :
              n \in 0..MaxParcels}

ExportOptions == [includePolygons : BOOLEAN, includePoints : BOOLEAN]

(***************************************************************************)
(* sql.js database                                                         *)
(***************************************************************************)
NotCalled == [status |-> "none", value |-> << >>]
Completed(v) == [status |-> "returned", value |-> v]
Failed == [status |-> "thrown", value |-> << >>]

NoBbox == [minX |-> 0, minY |-> 0, maxX |-> 0, maxY |-> 0]

\* new SqlJs.Database(): no table
NewDatabase ==
    [tables |-> {}, gpkg_spatial_ref_sys |-> << >>, gpkg_contents |-> << >>,
     gpkg_geometry_columns |-> << >>, polygons |-> << >>, points |-> << >>,
     error |-> FALSE]

\* CREATE TABLE name: an error when the table exists
CreateTable(d, name) ==
    IF d.error \/ name \in d.tables THEN [d EXCEPT !.error = TRUE]
    ELSE [d EXCEPT !.tables = @ \cup {name}]

\* the primary key (and UNIQUE) columns of a row of the table
RowKey(table, row) ==
    CASE table = "gpkg_spatial_ref_sys" -> << row.srs_id >>
      [] table = "gpkg_contents" -> << row.table_name >>
      [] table = "gpkg_geometry_columns" -> << row.table_name, row.column_name >>
      [] OTHER -> << row.fid >>

\* INSERT INTO table: an error when the table is missing or the key is taken
InsertRow(d, table, row) ==
    IF d.error \/ table \notin d.tables
       \/ \E i \in 1..Len(d[table]) : RowKey(table, d[table][i]) = RowKey(table, row)
    THEN [d EXCEPT !.error = TRUE]
    ELSE [d EXCEPT ![table] = Append(@, row)]

\* fid INTEGER PRIMARY KEY AUTOINCREMENT
NextFid(d, table) == Len(d[table]) + 1

\* a number interpolated into SQL text: Infinity and -Infinity are no SQL
\* literals, the statement does not compile
IsSqlNumber(v) == IsFinite(v)

(***************************************************************************)
(* generateGpkgWithLayers: its statements in program order                 *)
(***************************************************************************)
Stmt(op, arg) == [op |-> op, arg |-> arg]

LayerStatementsColumnsFirst(layer) ==
    << Stmt("create_table", layer), Stmt("insert_rows", layer),
       Stmt("insert_geometry_columns", layer), Stmt("insert_contents", layer) >>

\* the block run for an included layer
LayerStatements(layer) ==
    << Stmt("create_table", layer), Stmt("insert_rows", layer),
       Stmt("insert_contents", layer), Stmt("insert_geometry_columns", layer) >>

CoreStatements ==
    << Stmt("init_sql_js", ""), Stmt("new_database", ""),
       Stmt("create_table", "gpkg_spatial_ref_sys"), Stmt("insert_srs", ""),
       Stmt("create_table", "gpkg_contents"),
       Stmt("create_table", "gpkg_geometry_columns"),
       Stmt("timestamp", "") >>

GpkgStatementsAlwaysPolygons(opts) ==
    CoreStatements
    \o LayerStatements("polygons")
    \o (IF opts.includePoints THEN LayerStatements("points") ELSE << >>)
    \o << Stmt("export", "") >>

GpkgStatements(opts) ==
    CoreStatements
    \o (IF opts.includePolygons THEN LayerStatements("polygons") ELSE << >>)
    \o (IF opts.includePoints THEN LayerStatements("points") ELSE << >>)
    \o << Stmt("export", "") >>

\* the statement generateGpkgWithLayers is about to run
Running == gpkgPc \in 1..Len(GpkgStatements(options)) /\ gpkgData.status = "none"
Current == GpkgStatements(options)[gpkgPc]

SrsRow ==
    [srs_name |-> "WGS 84", srs_id |-> 4326, organization |-> "EPSG",
     organization_coordsys_id |-> 4326, description |-> "WGS 84 geodetic"]

(***************************************************************************)
(* the rows of the polygons layer                                          *)
(***************************************************************************)
RECURSIVE InsertPolygons(_, _, _)
\* parcels.forEach((parcel) => { createPolygonGpb; INSERT; update minX.. })
\* acc = [db, bbox]
InsertPolygons(acc, ps, i) ==
    IF i > Len(ps) THEN acc
    ELSE LET rings == ps[i].geometry.coordinates
             gpb == CreatePolygonGpb(rings, SrsIdWgs84)
             row == [fid |-> NextFid(acc.db, "polygons"), parcel_id |-> ps[i].id,
                     geom |-> gpb.bytes]
             d == IF gpb.status = "thrown" THEN [acc.db EXCEPT !.error = TRUE]
                  ELSE InsertRow(acc.db, "polygons", row)
         IN  InsertPolygons([db |-> d, bbox |-> RingsEnvelope(acc.bbox, rings)],
                            ps, i + 1)

(***************************************************************************)
(* the rows of the points layer                                            *)
(***************************************************************************)
PointIndexFromZero(index) == index - 1

\* index + 1 for the forEach index, which counts from 0; here index counts
\* from 1 as sequence positions do
PointIndex(index) == index

RECURSIVE InsertVertices(_, _, _, _)
\* parcel.vertices.forEach((vertex, index) => { createPointGpb; INSERT; update minX.. })
InsertVertices(acc, parcel, vs, i) ==
    IF i > Len(vs) THEN acc
    ELSE LET gpb == CreatePointGpb(vs[i].lng, vs[i].lat, SrsIdWgs84)
             row == [fid |-> NextFid(acc.db, "points"), parcel_id |-> parcel.id,
                     point_index |-> PointIndex(i), geom |-> gpb.bytes]
             d == IF gpb.status = "thrown" THEN [acc.db EXCEPT !.error = TRUE]
                  ELSE InsertRow(acc.db, "points", row)
         IN  InsertVertices([db |-> d, bbox |-> Extend(acc.bbox, vs[i].lng, vs[i].lat)],
                            parcel, vs, i + 1)

RECURSIVE InsertPoints(_, _, _)
\* parcels.forEach((parcel) => parcel.vertices.forEach(...))
InsertPoints(acc, ps, i) ==
    IF i > Len(ps) THEN acc
    ELSE InsertPoints(InsertVertices(acc, ps[i], ps[i].vertices, 1), ps, i + 1)

LayerRows(acc, layer, ps) ==
    IF layer = "polygons" THEN InsertPolygons(acc, ps, 1) ELSE InsertPoints(acc, ps, 1)

\* the description column (Polish text, written here without diacritics)
LayerDescription(layer) ==
    IF layer = "polygons" THEN "Obrysy dzialek" ELSE "Punkty graniczne dzialek"

\* the generation time also written into the description column
ContentsRowStamped(layer, ts, b) ==
    [table_name |-> layer, data_type |-> "features", identifier |-> layer,
     description |-> ts, last_change |-> ts,
     min_x |-> b.minX, min_y |-> b.minY, max_x |-> b.maxX, max_y |-> b.maxY,
     srs_id |-> 4326]

\* VALUES (layer, 'features', layer, description, timestamp, minX, minY, maxX, maxY, 4326)
ContentsRow(layer, ts, b) ==
    [table_name |-> layer, data_type |-> "features", identifier |-> layer,
     description |-> LayerDescription(layer), last_change |-> ts,
     min_x |-> b.minX, min_y |-> b.minY, max_x |-> b.maxX, max_y |-> b.maxY,
     srs_id |-> 4326]

GeometryTypeName(layer) == IF layer = "polygons" THEN "POLYGON" ELSE "POINT"

\* VALUES (layer, 'geom', type, 4326, 0, 0)
GeometryColumnsRow(layer) ==
    [table_name |-> layer, column_name |-> "geom",
     geometry_type_name |-> GeometryTypeName(layer), srs_id |-> 4326,
     z |-> 0, m |-> 0]

(***************************************************************************)
(* generateGpkgWithLayers, one action per kind of statement                *)
(***************************************************************************)
Times == {1, 2}

\* the call: generateGpkgWithLayers(parcels, options)
GpkgCall ==
    /\ gpkgPc = 0
    /\ gpkgData.status = "none"
    /\ gpkgPc' = 1
    /\ UNCHANGED <<encVars, dlVars, wktVars, restVars, parcels, options, db, bbox, timestamp, gpkgData,
                   geojsonOut, kmlOut>>

\* a statement the database refused is skipped and the call goes on
ProceedIgnoringErrors(d) ==
    /\ gpkgData' = gpkgData
    /\ db' = [d EXCEPT !.error = FALSE]
    /\ gpkgPc' = gpkgPc + 1

\* a statement that ran: go on, or fail the call when the database refused it
Proceed(d) ==
    IF d.error
    THEN /\ gpkgData' = Failed
         /\ db' = NewDatabase
         /\ gpkgPc' = gpkgPc
    ELSE /\ gpkgData' = gpkgData
         /\ db' = d
         /\ gpkgPc' = gpkgPc + 1

\* const SqlJs = await initSqlJs()
GpkgInitSqlJs ==
    /\ Running /\ Current.op = "init_sql_js"
    /\ gpkgPc' = gpkgPc + 1
    /\ UNCHANGED <<encVars, dlVars, wktVars, restVars, parcels, options, db, bbox, timestamp, gpkgData,
                   geojsonOut, kmlOut>>

\* const db = new SqlJs.Database()
GpkgNewDatabase ==
    /\ Running /\ Current.op = "new_database"
    /\ Proceed(NewDatabase)
    /\ UNCHANGED <<encVars, dlVars, wktVars, restVars, parcels, options, bbox, timestamp, geojsonOut, kmlOut>>

\* db.run(`CREATE TABLE ...`)
GpkgCreateTable ==
    /\ Running /\ Current.op = "create_table"
    /\ Proceed(CreateTable(db, Current.arg))
    /\ UNCHANGED <<encVars, dlVars, wktVars, restVars, parcels, options, bbox, timestamp, geojsonOut, kmlOut>>

\* db.run(`INSERT INTO gpkg_spatial_ref_sys VALUES ('WGS 84', 4326, ...)`)
GpkgInsertSrs ==
    /\ Running /\ Current.op = "insert_srs"
    /\ Proceed(InsertRow(db, "gpkg_spatial_ref_sys", SrsRow))
    /\ UNCHANGED <<encVars, dlVars, wktVars, restVars, parcels, options, bbox, timestamp, geojsonOut, kmlOut>>

\* const timestamp = new Date().toISOString()
GpkgTimestamp ==
    /\ Running /\ Current.op = "timestamp"
    /\ \E t \in Times : timestamp' = t
    /\ gpkgPc' = gpkgPc + 1
    /\ UNCHANGED <<encVars, dlVars, wktVars, restVars, parcels, options, db, bbox, gpkgData, geojsonOut, kmlOut>>

\* let minX = Infinity, ...; parcels.forEach(...)
GpkgInsertRows ==
    /\ Running /\ Current.op = "insert_rows"
    /\ LET acc == LayerRows([db |-> db, bbox |-> NoEnvelope], Current.arg, parcels)
       IN  /\ Proceed(acc.db)
           /\ bbox' = acc.bbox
    /\ UNCHANGED <<encVars, dlVars, wktVars, restVars, parcels, options, timestamp, geojsonOut, kmlOut>>

\* db.run(`INSERT INTO gpkg_contents VALUES (..., ${minX}, ${minY}, ${maxX}, ${maxY}, 4326)`)
GpkgInsertContents ==
    /\ Running /\ Current.op = "insert_contents"
    /\ LET row == ContentsRow(Current.arg, timestamp, bbox)
           compiles == /\ IsSqlNumber(row.min_x) /\ IsSqlNumber(row.min_y)
                       /\ IsSqlNumber(row.max_x) /\ IsSqlNumber(row.max_y)
       IN  Proceed(IF compiles THEN InsertRow(db, "gpkg_contents", row)
                   ELSE [db EXCEPT !.error = TRUE])
    /\ UNCHANGED <<encVars, dlVars, wktVars, restVars, parcels, options, bbox, timestamp, geojsonOut, kmlOut>>

\* db.run(`INSERT INTO gpkg_geometry_columns VALUES (layer, 'geom', type, 4326, 0, 0)`)
GpkgInsertGeometryColumns ==
    /\ Running /\ Current.op = "insert_geometry_columns"
    /\ Proceed(InsertRow(db, "gpkg_geometry_columns", GeometryColumnsRow(Current.arg)))
    /\ UNCHANGED <<encVars, dlVars, wktVars, restVars, parcels, options, bbox, timestamp, geojsonOut, kmlOut>>

\* const data = db.export(); db.close(); return data
GpkgExport ==
    /\ Running /\ Current.op = "export"
    /\ gpkgData' = Completed(db)
    /\ db' = NewDatabase
    /\ gpkgPc' = gpkgPc + 1
    /\ UNCHANGED <<encVars, dlVars, wktVars, restVars, parcels, options, bbox, timestamp, geojsonOut, kmlOut>>

GpkgStep ==
    \/ GpkgCall
    \/ GpkgInitSqlJs
    \/ GpkgNewDatabase
    \/ GpkgCreateTable
    \/ GpkgInsertSrs
    \/ GpkgTimestamp
    \/ GpkgInsertRows
    \/ GpkgInsertContents
    \/ GpkgInsertGeometryColumns
    \/ GpkgExport

(***************************************************************************)
(* generateGeojsonWithLayers (GeojsonExporter.js).  The document is        *)
(* modelled as the object handed to JSON.stringify.                        *)
(***************************************************************************)
\* ring.map((coord) => [coord.lng, coord.lat])
RingToGeojson(ring) == [i \in 1..Length(ring) |-> << Items(ring)[i].lng, Items(ring)[i].lat >>]
RingsToGeojson(rings) == [i \in 1..Length(rings) |-> RingToGeojson(Items(rings)[i])]

GeometryToGeojson(geometry) ==
    IF geometry.type = "POLYGON"
    THEN [type |-> "Polygon", coordinates |-> RingsToGeojson(geometry.coordinates)]
    ELSE IF geometry.type = "MULTIPOLYGON"
    THEN [type |-> "MultiPolygon",
          coordinates |-> [i \in 1..Length(geometry.coordinates) |->
                              RingsToGeojson(Items(geometry.coordinates)[i])]]
    ELSE Null

PolygonFeature(parcel) ==
    [type |-> "Feature",
     properties |-> [parcel_id |-> parcel.id, layer |-> "polygons"],
     geometry |-> GeometryToGeojson(parcel.geometry)]

PointFeature(parcel, index) ==
    [type |-> "Feature",
     properties |-> [parcel_id |-> parcel.id, point_index |-> PointIndex(index),
                     layer |-> "points"],
     geometry |-> [type |-> "Point",
                   coordinates |-> << parcel.vertices[index].lng,
                                      parcel.vertices[index].lat >>]]

RECURSIVE FlatMap(_, _, _)
\* the concatenation of F(ps[i]) for i = from .. Len(ps)
FlatMap(F(_), ps, from) ==
    IF from > Len(ps) THEN << >> ELSE F(ps[from]) \o FlatMap(F, ps, from + 1)

PointFeaturesOf(parcel) == [i \in 1..Len(parcel.vertices) |-> PointFeature(parcel, i)]

GeojsonFeaturesPointsFirst(ps, opts) ==
    (IF opts.includePoints THEN FlatMap(PointFeaturesOf, ps, 1) ELSE << >>)
    \o (IF opts.includePolygons THEN [i \in 1..Len(ps) |-> PolygonFeature(ps[i])]
        ELSE << >>)

\* features.push in the polygon loop, then in the point loop
GeojsonFeatures(ps, opts) ==
    (IF opts.includePolygons THEN [i \in 1..Len(ps) |-> PolygonFeature(ps[i])]
     ELSE << >>)
    \o (IF opts.includePoints THEN FlatMap(PointFeaturesOf, ps, 1) ELSE << >>)

GenerateGeojsonWithLayers(ps, opts) ==
    [type |-> "FeatureCollection", features |-> GeojsonFeatures(ps, opts)]

(***************************************************************************)
(* generateKmlWithLayers (KmlExporter.js).  The document is modelled as    *)
(* the element tree its text spells; a text is a sequence of strings, the  *)
(* characters of a parcel id being one string each.                        *)
(***************************************************************************)
RECURSIVE ReplaceAll(_, _, _)
\* str.replace(/ch/g, entity)
ReplaceAll(str, ch, entity) ==
    IF Len(str) = 0 THEN << >>
    ELSE (IF Head(str) = ch THEN entity ELSE << Head(str) >>)
         \o ReplaceAll(Tail(str), ch, entity)

\* the ampersand replaced after the other four characters
EscapeXmlAmpLast(str) ==
    IF Len(str) = 0 THEN << >>
    ELSE LET b == ReplaceAll(str, "<", << "&", "l", "t", ";" >>)
             c == ReplaceAll(b, ">", << "&", "g", "t", ";" >>)
             d == ReplaceAll(c, "\"", << "&", "q", "u", "o", "t", ";" >>)
             e == ReplaceAll(d, "'", << "&", "a", "p", "o", "s", ";" >>)
             a == ReplaceAll(e, "&", << "&", "a", "m", "p", ";" >>)
         IN  a

EscapeXml(str) ==
    IF Len(str) = 0 THEN << >>
    ELSE LET a == ReplaceAll(str, "&", << "&", "a", "m", "p", ";" >>)
             b == ReplaceAll(a, "<", << "&", "l", "t", ";" >>)
             c == ReplaceAll(b, ">", << "&", "g", "t", ";" >>)
             d == ReplaceAll(c, "\"", << "&", "q", "u", "o", "t", ";" >>)
             e == ReplaceAll(d, "'", << "&", "a", "p", "o", "s", ";" >>)
         IN  e

\* ring.map((coord) => `${coord.lng},${coord.lat},0`).join(" ")
FormatRing(ring) == [i \in 1..Length(ring) |-> << Items(ring)[i].lng, Items(ring)[i].lat, 0 >>]
FormatRings(rings) == [i \in 1..Length(rings) |-> FormatRing(Items(rings)[i])]

FormatCoordinatesForKml(geometry) ==
    IF geometry.type = "POLYGON" THEN FormatRings(geometry.coordinates)
    ELSE IF geometry.type = "MULTIPOLYGON"
    THEN [i \in 1..Length(geometry.coordinates) |->
             FormatRings(Items(geometry.coordinates)[i])]
    ELSE << >>

\* the last ring taken as the outer boundary, the others as inner boundaries
GeneratePolygonKmlLastOuter(rings) ==
    [tag |-> "Polygon",
     outerBoundaryIs |-> IF Len(rings) = 0 THEN << "undefined" >> ELSE rings[Len(rings)],
     innerBoundaryIs |-> IF Len(rings) = 0 THEN << >> ELSE SubSeq(rings, 1, Len(rings) - 1)]

\* const [outerRing, ...innerRings] = rings
GeneratePolygonKml(rings) ==
    [tag |-> "Polygon",
     outerBoundaryIs |-> IF Len(rings) = 0 THEN << "undefined" >> ELSE rings[1],
     innerBoundaryIs |-> IF Len(rings) = 0 THEN << >> ELSE Tail(rings)]

GenerateMultiPolygonKml(polygons) ==
    [tag |-> "MultiGeometry",
     polygons |-> [i \in 1..Len(polygons) |-> GeneratePolygonKml(polygons[i])]]

GenerateGeometryKml(geometry, formattedCoords) ==
    IF geometry.type = "POLYGON" THEN GeneratePolygonKml(formattedCoords)
    ELSE IF geometry.type = "MULTIPOLYGON" THEN GenerateMultiPolygonKml(formattedCoords)
    ELSE [tag |-> ""]

PolygonPlacemark(parcel) ==
    [name |-> EscapeXml(parcel.id),
     description |-> << "Dzialka ewidencyjna: " >> \o EscapeXml(parcel.id),
     styleUrl |-> "#parcelStyle",
     geometry |-> GenerateGeometryKml(parcel.geometry,
                                      FormatCoordinatesForKml(parcel.geometry))]

PointPlacemark(parcel, index) ==
    [name |-> EscapeXml(parcel.id) \o << " - Pkt ", ToString(PointIndex(index)) >>,
     description |-> << "Dzialka: " >> \o EscapeXml(parcel.id)
                     \o << ", Punkt ", ToString(PointIndex(index)) >>,
     styleUrl |-> "#pointStyle",
     geometry |-> [tag |-> "Point",
                   coordinates |-> << parcel.vertices[index].lng,
                                      parcel.vertices[index].lat, 0 >>]]

PointPlacemarksOf(parcel) ==
    [i \in 1..Len(parcel.vertices) |-> PointPlacemark(parcel, i)]

PolygonsFolder(ps) ==
    [name |-> "Obrysy dzialek",
     description |-> << "Obrysy ", ToString(Len(ps)), " dzialek" >>,
     placemarks |-> [i \in 1..Len(ps) |-> PolygonPlacemark(ps[i])]]

PointsFolder(ps) ==
    [name |-> "Punkty graniczne",
     description |-> << "Punkty graniczne ", ToString(Len(ps)), " dzialek" >>,
     placemarks |-> FlatMap(PointPlacemarksOf, ps, 1)]

\* the points folder appended before the polygons folder
KmlFoldersPointsFirst(ps, opts) ==
    (IF opts.includePoints THEN << PointsFolder(ps) >> ELSE << >>)
    \o (IF opts.includePolygons THEN << PolygonsFolder(ps) >> ELSE << >>)

\* folders += polygons folder; folders += points folder
KmlFolders(ps, opts) ==
    (IF opts.includePolygons THEN << PolygonsFolder(ps) >> ELSE << >>)
    \o (IF opts.includePoints THEN << PointsFolder(ps) >> ELSE << >>)

GenerateKmlWithLayers(ps, opts, ts) ==
    [name |-> << "Dzialki (", ToString(Len(ps)), ")" >>,
     description |-> << "Eksport ", ToString(Len(ps)),
                        " dzialek - wygenerowano: ", ToString(ts) >>,
     styles |-> << "parcelStyle", "pointStyle" >>,
     folders |-> KmlFolders(ps, opts)]

(***************************************************************************)
(* The exporters under test: each exporter is called at most once on the   *)
(* parcel list and the options drawn at the start.  The synchronous        *)
(* exporters run as one step, and only while generateGpkgWithLayers is not *)
(* between the end of its await and its return.                            *)
(***************************************************************************)
NoResult == [status |-> "none", bytes |-> << >>]
NoArgs == [fn |-> "none", lng |-> 0, lat |-> 0, srsId |-> 0, rings |-> Arr(<< >>)]

\* let SQL = null
NoInstance == 0

\* no download function was called yet
DownloadIdle ==
    /\ SQL = NoInstance
    /\ inits = << >>
    /\ calls = << >>
    /\ active = 0
    /\ downloads = << >>

\* parseWkt was not called
NoWkt == [k |-> "none"]
NotParsed == [status |-> "none"]
ParserIdle == wktString = NoWkt /\ wktOut = NotParsed
NoGeometry == [type |-> "none"]
VertexIdle == vxGeometry = NoGeometry /\ vxOut = NotParsed
\* the fields of App and the page after construction
NoAdd == [outcome |-> "none"]
NoDownload == [format |-> "none"]
NoRun == [phase |-> "idle"]
NoReport == [total |-> 0]
AppIdle ==
    /\ appParcels = << >>
    /\ showingPolygons = TRUE
    /\ showingPoints = FALSE
    /\ appStatus = "hidden"
    /\ lookups = 0
    /\ gpkgPending = 0
    /\ addButtonLoading = FALSE
    /\ lastAdd = NoAdd
    /\ lastDownload = NoDownload
    /\ coordinateQueue = << >>
    /\ nextQueueId = 1
    /\ run = NoRun
    /\ lastReport = NoReport
\* the fields of SearchService after construction
SearchIdle ==
    /\ debounceTimer = 0
    /\ searches = << >>
    /\ searchResults = 0
\* the fields of AnalyticsService after construction, on a page without
\* stored consent
AnalyticsIdle ==
    /\ storedConsent = "null"
    /\ consentGiven = FALSE
    /\ gaInitialized = FALSE
    /\ gaConfigured = FALSE
    /\ scripts = 0
    /\ listeners = 0
    /\ bannerShown = FALSE
    /\ everConsented = FALSE
    /\ eventsSent = 0
RestIdle == VertexIdle /\ AppIdle /\ SearchIdle /\ AnalyticsIdle

GpkgSuspended == gpkgPc <= 1 \/ gpkgData.status # "none"

GeojsonCall ==
    /\ GpkgSuspended
    /\ geojsonOut.status = "none"
    /\ geojsonOut' = Completed(GenerateGeojsonWithLayers(parcels, options))
    /\ UNCHANGED <<encVars, dlVars, wktVars, restVars, parcels, options, gpkgPc, db, bbox, timestamp,
                   gpkgData, kmlOut>>

KmlCall ==
    /\ GpkgSuspended
    /\ kmlOut.status = "none"
    /\ \E t \in Times : kmlOut' = Completed(GenerateKmlWithLayers(parcels, options, t))
    /\ UNCHANGED <<encVars, dlVars, wktVars, restVars, parcels, options, gpkgPc, db, bbox, timestamp,
                   gpkgData, geojsonOut>>

InitExport ==
    /\ encArgs = NoArgs
    /\ encOut = NoResult
    /\ parcels \in ParcelLists
    /\ options \in ExportOptions
    /\ gpkgPc = 0
    /\ db = NewDatabase
    /\ bbox = NoBbox
    /\ timestamp = 0
    /\ gpkgData = NotCalled
    /\ geojsonOut = NotCalled
    /\ kmlOut = NotCalled
    /\ DownloadIdle
    /\ ParserIdle
    /\ RestIdle

NextExport == GpkgStep \/ GeojsonCall \/ KmlCall

SpecExport == InitExport /\ [][NextExport]_vars

(***************************************************************************)
(* The encoder under test: one call of createPointGpb or createPolygonGpb  *)
(* on arguments drawn from the pools below.                                *)
(***************************************************************************)
Lngs == {-1, 2}
Lats == {1, 3}
SrsIds == {SrsIdWgs84, 2180, -1}

Coords == {Pt(lat, lng) : lat \in Lats, lng \in Lngs}
PointPool == {Pt(1, -1), Pt(1, 2), Pt(3, 2)}

\* closed rings: the first coordinate repeated at the end; every closed ring
\* of four coordinates over the pool, and two rings of five
ClosedRings(n) == {Arr(s \o << s[1] >>) : s \in [1..(n - 1) -> PointPool]}
LongRings == {Arr(<< Pt(1, -1), Pt(1, 2), Pt(3, 2), Pt(3, -1), Pt(1, -1) >>),
              Arr(<< Pt(3, 2), Pt(1, 2), Pt(1, 2), Pt(3, -1), Pt(3, 2) >>)}
RingPool == ClosedRings(4) \cup LongRings
RingSeqs == UNION {[1..n -> RingPool] : n \in 1..MaxRings}

PointArgs ==
    {[fn |-> "createPointGpb", lng |-> c.lng, lat |-> c.lat, srsId |-> s,
      rings |-> Arr(<< >>)] : c \in Coords, s \in SrsIds}
PolygonArgs ==
    {[fn |-> "createPolygonGpb", lng |-> 0, lat |-> 0, srsId |-> SrsIdWgs84,
      rings |-> Arr(r)] : r \in RingSeqs}

ExportIdle ==
    /\ parcels = << >>
    /\ options = [includePolygons |-> FALSE, includePoints |-> FALSE]
    /\ gpkgPc = 0
    /\ db = NewDatabase
    /\ bbox = NoBbox
    /\ timestamp = 0
    /\ gpkgData = NotCalled
    /\ geojsonOut = NotCalled
    /\ kmlOut = NotCalled

InitEncoder ==
    /\ encArgs \in PointArgs \cup PolygonArgs
    /\ encOut = NoResult
    /\ ExportIdle
    /\ DownloadIdle
    /\ ParserIdle
    /\ RestIdle

EncodePoint ==
    /\ encArgs.fn = "createPointGpb"
    /\ encOut = NoResult
    /\ encOut' = CreatePointGpb(encArgs.lng, encArgs.lat, encArgs.srsId)
    /\ UNCHANGED <<encArgs, expVars, dlVars, wktVars, restVars>>

EncodePolygon ==
    /\ encArgs.fn = "createPolygonGpb"
    /\ encOut = NoResult
    /\ encOut' = CreatePolygonGpb(encArgs.rings, encArgs.srsId)
    /\ UNCHANGED <<encArgs, expVars, dlVars, wktVars, restVars>>

NextEncoder == EncodePoint \/ EncodePolygon

SpecEncoder == InitEncoder /\ [][NextEncoder]_vars

(***************************************************************************)
(* Reading a byte buffer back (used by the properties below)               *)
(***************************************************************************)
IsUint8At(bytes, off) == off + 1 <= Len(bytes) /\ bytes[off + 1].t = "u8"
ReadUint8(bytes, off) == bytes[off + 1].v
IsUint32At(bytes, off) ==
    off + 4 <= Len(bytes) /\ \A i \in 1..4 : bytes[off + i].t = "u8"
ReadUint32(bytes, off) ==
    bytes[off + 1].v + 256 * bytes[off + 2].v + 65536 * bytes[off + 3].v
        + 16777216 * bytes[off + 4].v
ReadInt32(bytes, off) ==
    IF bytes[off + 4].v < 128 THEN ReadUint32(bytes, off)
    ELSE ((bytes[off + 1].v + 256 * bytes[off + 2].v + 65536 * bytes[off + 3].v
            + 16777216 * (bytes[off + 4].v - 128)) - 2147483647) - 1
\* the eight bytes at off are the little-endian float64 v
HoldsFloat64(bytes, off, v) ==
    off + 8 <= Len(bytes) /\ \A i \in 1..8 : bytes[off + i] = F64Cell(v, i - 1)
ReadFloat64(bytes, off) == bytes[off + 1].v
IsFloat64At(bytes, off) == HoldsFloat64(bytes, off, ReadFloat64(bytes, off))

SeqRange(s) == {s[i] : i \in 1..Len(s)}
\* every coordinate of every ring of a ring array
AllCoords(rings) == UNION {SeqRange(Items(r)) : r \in SeqRange(Items(rings))}
MinOf(S) == CHOOSE x \in S : \A y \in S : x <= y
MaxOf(S) == CHOOSE x \in S : \A y \in S : x >= y
LngsOf(cs) == {c.lng : c \in cs}
LatsOf(cs) == {c.lat : c \in cs}

PolygonEncoded == encArgs.fn = "createPolygonGpb" /\ encOut # NoResult
PointEncoded == encArgs.fn = "createPointGpb" /\ encOut # NoResult

(***************************************************************************)
(* C1: the envelope in the header written by createPolygonGpb has          *)
(* minX/maxX equal to the least/greatest longitude and minY/maxY equal to  *)
(* the least/greatest latitude over every coordinate of every ring, holes  *)
(* included.                                                               *)
(***************************************************************************)
C1_EnvelopeOverAllRings ==
    PolygonEncoded =>
        /\ encOut.status = "returned"
        /\ HoldsFloat64(encOut.bytes, 8, MinOf(LngsOf(AllCoords(encArgs.rings))))
        /\ HoldsFloat64(encOut.bytes, 16, MaxOf(LngsOf(AllCoords(encArgs.rings))))
        /\ HoldsFloat64(encOut.bytes, 24, MinOf(LatsOf(AllCoords(encArgs.rings))))
        /\ HoldsFloat64(encOut.bytes, 32, MaxOf(LatsOf(AllCoords(encArgs.rings))))

\* an encoded polygon whose hole reaches beyond the outer ring on both axes
C1_Witness ==
    /\ PolygonEncoded
    /\ encOut.status = "returned"
    /\ Length(encArgs.rings) >= 2
    /\ LET outer == SeqRange(Items(Items(encArgs.rings)[1]))
           hole == SeqRange(Items(Items(encArgs.rings)[2]))
       IN  /\ MinOf(LngsOf(hole)) < MinOf(LngsOf(outer))
           /\ MaxOf(LatsOf(hole)) > MaxOf(LatsOf(outer))

(***************************************************************************)
(* C4: createPointGpb returns 'G','P'; version 0; flag byte 0x03; srsId as *)
(* little-endian int32; the envelope doubles minX, maxX, minY, maxY with   *)
(* minX = maxX = lng and minY = maxY = lat; then byte-order flag 1, type   *)
(* code 1, X = lng, Y = lat.                                               *)
(***************************************************************************)
C4_PointLayout ==
    PointEncoded =>
        /\ encOut.status = "returned"
        /\ Len(encOut.bytes) = 61
        /\ encOut.bytes[1] = Byte(71)
        /\ encOut.bytes[2] = Byte(80)
        /\ encOut.bytes[3] = Byte(0)
        /\ encOut.bytes[4] = Byte(3)
        /\ IsUint32At(encOut.bytes, 4)
        /\ ReadInt32(encOut.bytes, 4) = encArgs.srsId
        /\ HoldsFloat64(encOut.bytes, 8, encArgs.lng)
        /\ HoldsFloat64(encOut.bytes, 16, encArgs.lng)
        /\ HoldsFloat64(encOut.bytes, 24, encArgs.lat)
        /\ HoldsFloat64(encOut.bytes, 32, encArgs.lat)
        /\ encOut.bytes[41] = Byte(1)
        /\ IsUint32At(encOut.bytes, 41)
        /\ ReadUint32(encOut.bytes, 41) = 1
        /\ HoldsFloat64(encOut.bytes, 45, encArgs.lng)
        /\ HoldsFloat64(encOut.bytes, 53, encArgs.lat)

\* an encoded point with a negative longitude and a negative srsId
C4_Witness ==
    /\ PointEncoded
    /\ encOut.status = "returned"
    /\ encArgs.lng < 0
    /\ encArgs.srsId < 0

(***************************************************************************)
(* C5: the output is header then payload without gap or padding:           *)
(* createPointGpb returns 40 + 21 = 61 bytes, createPolygonGpb returns     *)
(* 40 + 9 + the sum over the rings of (4 + 16 * |ring|) bytes, and         *)
(* polygonToWkb never writes past its buffer and ends with the write       *)
(* offset equal to the buffer size.                                        *)
(***************************************************************************)
C5_PointCount(rings) ==
    Cardinality(UNION {{<<j, i>> : i \in 1..Length(Items(rings)[j])} :
                          j \in 1..Length(rings)})

C5_Lengths ==
    /\ PointEncoded => (encOut.status = "returned" /\ Len(encOut.bytes) = 40 + 21)
    /\ PolygonEncoded =>
        /\ encOut.status = "returned"
        /\ Len(encOut.bytes) = 40 + 9 + 4 * Length(encArgs.rings)
                                 + 16 * C5_PointCount(encArgs.rings)
        /\ ~PolygonToWkbRun(encArgs.rings).view.thrown
        /\ PolygonToWkbRun(encArgs.rings).offset
             = Len(PolygonToWkbRun(encArgs.rings).view.buffer)
        /\ SubSeq(encOut.bytes, 41, Len(encOut.bytes))
             = PolygonToWkbRun(encArgs.rings).view.buffer

\* an encoded polygon with two rings of different lengths
C5_Witness ==
    /\ PolygonEncoded
    /\ encOut.status = "returned"
    /\ Length(encArgs.rings) = 2
    /\ Length(Items(encArgs.rings)[1]) # Length(Items(encArgs.rings)[2])

(***************************************************************************)
(* C6: reading back the polygon payload written by createPolygonGpb (ring  *)
(* count, then per ring a point count followed by X,Y pairs) yields the    *)
(* input rings: same rings in the same order, same points in the same      *)
(* order, X = lng and Y = lat, the closing point kept.                     *)
(***************************************************************************)
ReadPoints(bytes, off, n) ==
    [i \in 1..n |-> Pt(ReadFloat64(bytes, off + 16 * (i - 1) + 8),
                       ReadFloat64(bytes, off + 16 * (i - 1)))]

PointsWellFormed(bytes, off, n) ==
    \A i \in 1..n : /\ IsFloat64At(bytes, off + 16 * (i - 1))
                    /\ IsFloat64At(bytes, off + 16 * (i - 1) + 8)

RECURSIVE ReadRings(_, _, _)
ReadRings(bytes, off, n) ==
    IF n = 0 THEN << >>
    ELSE LET cnt == ReadUint32(bytes, off)
         IN  << Arr(ReadPoints(bytes, off + 4, cnt)) >>
                \o ReadRings(bytes, off + 4 + 16 * cnt, n - 1)

RECURSIVE RingsWellFormed(_, _, _)
\* the n rings starting at off are laid out as counts and float64 pairs and
\* end exactly at the end of the buffer
RingsWellFormed(bytes, off, n) ==
    IF n = 0 THEN off = Len(bytes)
    ELSE /\ IsUint32At(bytes, off)
         /\ PointsWellFormed(bytes, off + 4, ReadUint32(bytes, off))
         /\ RingsWellFormed(bytes, off + 4 + 16 * ReadUint32(bytes, off), n - 1)

C6_RoundTrip ==
    PolygonEncoded =>
        /\ encOut.status = "returned"
        /\ encOut.bytes[41] = Byte(1)
        /\ IsUint32At(encOut.bytes, 41)
        /\ ReadUint32(encOut.bytes, 41) = 3
        /\ IsUint32At(encOut.bytes, 45)
        /\ RingsWellFormed(encOut.bytes, 49, ReadUint32(encOut.bytes, 45))
        /\ Arr(ReadRings(encOut.bytes, 49, ReadUint32(encOut.bytes, 45)))
             = encArgs.rings

\* an encoded polygon with an outer ring and a different hole, the outer
\* ring visiting three different coordinates
C6_Witness ==
    /\ PolygonEncoded
    /\ encOut.status = "returned"
    /\ Length(encArgs.rings) = 2
    /\ Items(encArgs.rings)[1] # Items(encArgs.rings)[2]
    /\ Cardinality(SeqRange(Items(Items(encArgs.rings)[1]))) = 3

(***************************************************************************)
(* Reading the state of an export (used by the properties below)           *)
(***************************************************************************)
GpkgReturned == gpkgData.status = "returned"

\* the statement at position j has run in the running call
HasRun(stmt) ==
    /\ gpkgPc >= 1
    /\ gpkgData.status = "none"
    /\ \E j \in 1..Len(GpkgStatements(options)) :
          j < gpkgPc /\ GpkgStatements(options)[j] = stmt

\* the database as the running call sees it, or as the finished call
\* exported it
DbView == IF GpkgReturned THEN gpkgData.value ELSE db

\* every coordinate of a geometry, whatever its type
GeometryCoords(g) ==
    IF g.type = "POLYGON" THEN AllCoords(g.coordinates)
    ELSE UNION {AllCoords(poly) : poly \in SeqRange(Items(g.coordinates))}

RECURSIVE VertexOffset(_, _)
\* the number of vertices of the parcels before parcel p
VertexOffset(ps, p) ==
    IF p <= 1 THEN 0 ELSE VertexOffset(ps, p - 1) + Len(ps[p - 1].vertices)
TotalVertices(ps) == VertexOffset(ps, Len(ps) + 1)

(***************************************************************************)
(* C2: for every parcel, Polygon or MultiPolygon, the row inserted into    *)
(* the polygons table has a header envelope that is finite and bounds      *)
(* every coordinate of every ring of the parcel's geometry, and its        *)
(* payload holds the coordinates of the geometry.                          *)
(***************************************************************************)
C2_RowBoundsGeometry(row, g) ==
    LET minX == ReadFloat64(row.geom, 8)
        maxX == ReadFloat64(row.geom, 16)
        minY == ReadFloat64(row.geom, 24)
        maxY == ReadFloat64(row.geom, 32)
    IN  /\ IsFinite(minX) /\ IsFinite(maxX) /\ IsFinite(minY) /\ IsFinite(maxY)
        /\ \A c \in GeometryCoords(g) :
              /\ minX <= c.lng /\ c.lng <= maxX
              /\ minY <= c.lat /\ c.lat <= maxY
        /\ \A c \in GeometryCoords(g) :
              \E off \in 49..(Len(row.geom) - 16) :
                 /\ HoldsFloat64(row.geom, off, c.lng)
                 /\ HoldsFloat64(row.geom, off + 8, c.lat)

C2_PolygonRowsBoundGeometry ==
    \A i \in 1..Len(DbView.polygons) :
        /\ DbView.polygons[i].parcel_id = parcels[i].id
        /\ C2_RowBoundsGeometry(DbView.polygons[i], parcels[i].geometry)

(***************************************************************************)
(* C3: after generateGpkgWithLayers completes, the bounding box in the     *)
(* gpkg_contents row of 'polygons' is the min/max over every coordinate of *)
(* every ring of every parcel, and that of 'points' the min/max over every *)
(* vertex of every parcel.                                                 *)
(***************************************************************************)
C3_LayerCoords(layer) ==
    IF layer = "polygons"
    THEN UNION {GeometryCoords(parcels[i].geometry) : i \in 1..Len(parcels)}
    ELSE UNION {SeqRange(parcels[i].vertices) : i \in 1..Len(parcels)}

C3_ContentsBoundingBox ==
    GpkgReturned =>
        \A i \in 1..Len(gpkgData.value.gpkg_contents) :
            LET row == gpkgData.value.gpkg_contents[i]
                cs == C3_LayerCoords(row.table_name)
            IN  /\ cs # {}
                /\ row.min_x = MinOf(LngsOf(cs))
                /\ row.max_x = MaxOf(LngsOf(cs))
                /\ row.min_y = MinOf(LatsOf(cs))
                /\ row.max_y = MaxOf(LatsOf(cs))

(***************************************************************************)
(* C7: with includePolygons = false and includePoints = false the export   *)
(* still creates the three registry tables (gpkg_spatial_ref_sys with      *)
(* exactly one row, srs_id 4326), creates neither polygons nor points, and *)
(* inserts no feature row and no contents or geometry-column row.          *)
(***************************************************************************)
RegistryTables == {"gpkg_spatial_ref_sys", "gpkg_contents", "gpkg_geometry_columns"}

C7_NoLayers ==
    (~options.includePolygons /\ ~options.includePoints) =>
        /\ gpkgData.status # "thrown"
        /\ db.tables \subseteq RegistryTables
        /\ db.polygons = << >> /\ db.points = << >>
        /\ db.gpkg_contents = << >> /\ db.gpkg_geometry_columns = << >>
        /\ GpkgReturned =>
              /\ gpkgData.value.tables = RegistryTables
              /\ Len(gpkgData.value.gpkg_spatial_ref_sys) = 1
              /\ gpkgData.value.gpkg_spatial_ref_sys[1].srs_id = 4326
              /\ gpkgData.value.polygons = << >>
              /\ gpkgData.value.points = << >>
              /\ gpkgData.value.gpkg_contents = << >>
              /\ gpkgData.value.gpkg_geometry_columns = << >>

\* a finished export of two parcels with both layers switched off
C7_Witness ==
    /\ ~options.includePolygons /\ ~options.includePoints
    /\ Len(parcels) = 2
    /\ GpkgReturned
    /\ gpkgData.value.tables = RegistryTables

(***************************************************************************)
(* C8: after the export completes, gpkg_contents and gpkg_geometry_columns *)
(* each hold exactly one row per included layer ('polygons' iff            *)
(* includePolygons, typed POLYGON; 'points' iff includePoints, typed       *)
(* POINT; srs_id 4326, z = m = 0); and at every step of the export each    *)
(* gpkg_geometry_columns row names a table already in gpkg_contents and an *)
(* srs_id already in gpkg_spatial_ref_sys.                                 *)
(***************************************************************************)
C8_Included(layer) ==
    IF layer = "polygons" THEN options.includePolygons ELSE options.includePoints

C8_RowsOf(rows, layer) == {i \in 1..Len(rows) : rows[i].table_name = layer}

C8_Registries ==
    /\ GpkgReturned =>
          LET v == gpkgData.value
          IN  /\ \A layer \in {"polygons", "points"} :
                    /\ Cardinality(C8_RowsOf(v.gpkg_contents, layer))
                         = IF C8_Included(layer) THEN 1 ELSE 0
                    /\ Cardinality(C8_RowsOf(v.gpkg_geometry_columns, layer))
                         = IF C8_Included(layer) THEN 1 ELSE 0
              /\ \A i \in 1..Len(v.gpkg_contents) :
                    /\ v.gpkg_contents[i].table_name \in {"polygons", "points"}
                    /\ v.gpkg_contents[i].data_type = "features"
                    /\ v.gpkg_contents[i].srs_id = 4326
              /\ \A i \in 1..Len(v.gpkg_geometry_columns) :
                    LET r == v.gpkg_geometry_columns[i]
                    IN  /\ r.table_name \in {"polygons", "points"}
                        /\ r.geometry_type_name
                             = (IF r.table_name = "polygons" THEN "POLYGON" ELSE "POINT")
                        /\ r.srs_id = 4326 /\ r.z = 0 /\ r.m = 0
    /\ \A i \in 1..Len(DbView.gpkg_geometry_columns) :
          LET r == DbView.gpkg_geometry_columns[i]
          IN  /\ \E j \in 1..Len(DbView.gpkg_contents) :
                    DbView.gpkg_contents[j].table_name = r.table_name
              /\ \E j \in 1..Len(DbView.gpkg_spatial_ref_sys) :
                    DbView.gpkg_spatial_ref_sys[j].srs_id = r.srs_id

\* a finished export with both layers
C8_Witness ==
    /\ options.includePolygons /\ options.includePoints
    /\ GpkgReturned
    /\ Len(gpkgData.value.gpkg_geometry_columns) = 2

(***************************************************************************)
(* C9: in all three exporters, with includePoints the points layer holds   *)
(* exactly one entry per vertex per parcel, in parcel order and then       *)
(* vertex order; the point index of the k-th vertex of a parcel is k,      *)
(* restarting at 1 for every parcel; the number of entries is the sum of   *)
(* the parcels' vertex counts.                                             *)
(***************************************************************************)
\* entries[VertexOffset + k] is the entry of the k-th vertex of parcel p
C9_OnePerVertex(entries, Matches(_, _, _, _)) ==
    /\ Len(entries) = TotalVertices(parcels)
    /\ \A p \in 1..Len(parcels) :
          \A k \in 1..Len(parcels[p].vertices) :
              Matches(entries[VertexOffset(parcels, p) + k], parcels[p].id, k,
                      parcels[p].vertices[k])

C9_GpkgRow(row, id, k, vertex) ==
    /\ row.parcel_id = id
    /\ row.point_index = k
    /\ ReadUint32(row.geom, 41) = 1
    /\ HoldsFloat64(row.geom, 45, vertex.lng)
    /\ HoldsFloat64(row.geom, 53, vertex.lat)

C9_GeojsonFeature(f, id, k, vertex) ==
    /\ f.properties.layer = "points"
    /\ f.properties.parcel_id = id
    /\ f.properties.point_index = k
    /\ f.geometry.type = "Point"
    /\ f.geometry.coordinates = << vertex.lng, vertex.lat >>

C9_KmlPlacemark(pm, id, k, vertex) ==
    /\ pm.name = EscapeXml(id) \o << " - Pkt ", ToString(k) >>
    /\ pm.description = << "Dzialka: " >> \o EscapeXml(id) \o << ", Punkt ", ToString(k) >>
    /\ pm.geometry.tag = "Point"
    /\ pm.geometry.coordinates = << vertex.lng, vertex.lat, 0 >>

C9_PointFeatures(features) ==
    SubSeq(features, (IF options.includePolygons THEN Len(parcels) ELSE 0) + 1,
           Len(features))

C9_PointsFolders(folders) == {i \in 1..Len(folders) : folders[i].name = "Punkty graniczne"}

C9_PointsOnePerVertex ==
    options.includePoints =>
        /\ (GpkgReturned \/ HasRun(Stmt("insert_rows", "points"))) =>
              C9_OnePerVertex(DbView.points, C9_GpkgRow)
        /\ geojsonOut.status = "returned" =>
              C9_OnePerVertex(C9_PointFeatures(geojsonOut.value.features),
                              C9_GeojsonFeature)
        /\ kmlOut.status = "returned" =>
              /\ Cardinality(C9_PointsFolders(kmlOut.value.folders)) = 1
              /\ \A i \in C9_PointsFolders(kmlOut.value.folders) :
                    C9_OnePerVertex(kmlOut.value.folders[i].placemarks, C9_KmlPlacemark)

\* all three exporters finished on two parcels with different, non-zero
\* vertex counts
C9_Witness ==
    /\ options.includePoints
    /\ Len(parcels) = 2
    /\ Len(parcels[1].vertices) # Len(parcels[2].vertices)
    /\ Len(parcels[1].vertices) > 1 /\ Len(parcels[2].vertices) > 1
    /\ GpkgReturned /\ geojsonOut.status = "returned" /\ kmlOut.status = "returned"
    /\ Len(gpkgData.value.points) = TotalVertices(parcels)

(***************************************************************************)
(* C10: the features of generateGeojsonWithLayers are, with                *)
(* includePolygons, one polygon feature per parcel in parcel order,        *)
(* followed, with includePoints, by one point feature per vertex per       *)
(* parcel; the feature count is (number of parcels if includePolygons) +   *)
(* (sum of vertex counts if includePoints), and no point feature precedes  *)
(* a polygon feature.                                                      *)
(***************************************************************************)
C10_FeatureOrder ==
    geojsonOut.status = "returned" =>
        LET fs == geojsonOut.value.features
            nPolygons == IF options.includePolygons THEN Len(parcels) ELSE 0
            nPoints == IF options.includePoints THEN TotalVertices(parcels) ELSE 0
        IN  /\ geojsonOut.value.type = "FeatureCollection"
            /\ Len(fs) = nPolygons + nPoints
            /\ \A i \in 1..nPolygons :
                  /\ fs[i].type = "Feature"
                  /\ fs[i].properties = [parcel_id |-> parcels[i].id, layer |-> "polygons"]
                  /\ fs[i].geometry.type
                       = (IF parcels[i].geometry.type = "POLYGON"
                          THEN "Polygon" ELSE "MultiPolygon")
            /\ \A i \in (nPolygons + 1)..Len(fs) :
                  /\ fs[i].type = "Feature"
                  /\ fs[i].properties.layer = "points"
                  /\ fs[i].geometry.type = "Point"
            /\ \A i \in 1..Len(fs) : \A j \in 1..Len(fs) :
                  (fs[i].properties.layer = "points"
                     /\ fs[j].properties.layer = "polygons") => j < i

\* both layers requested for a parcel with 3 vertices and one with 4:
\* 2 + 3 + 4 = 9 features
C10_Witness ==
    /\ options.includePolygons /\ options.includePoints
    /\ Len(parcels) = 2
    /\ Len(parcels[1].vertices) = 3 /\ Len(parcels[2].vertices) = 4
    /\ geojsonOut.status = "returned"
    /\ Len(geojsonOut.value.features) = 9

(***************************************************************************)
(* Reading a KML document (used by the properties below)                   *)
(***************************************************************************)
KmlReturned == kmlOut.status = "returned"
FoldersNamed(name) ==
    {i \in 1..Len(kmlOut.value.folders) : kmlOut.value.folders[i].name = name}
PolygonsFolders == FoldersNamed("Obrysy dzialek")
PointsFolders == FoldersNamed("Punkty graniczne")

(***************************************************************************)
(* C11: the document of generateKmlWithLayers holds the polygons folder    *)
(* iff includePolygons and the points folder iff includePoints, at most    *)
(* one of each and no other folder, the polygons folder before the points  *)
(* folder; the polygons folder has one placemark per parcel, in parcel     *)
(* order, and the points folder one placemark per vertex per parcel.       *)
(***************************************************************************)
C11_KmlFolders ==
    KmlReturned =>
        LET fs == kmlOut.value.folders
        IN  /\ Cardinality(PolygonsFolders) = (IF options.includePolygons THEN 1 ELSE 0)
            /\ Cardinality(PointsFolders) = (IF options.includePoints THEN 1 ELSE 0)
            /\ Len(fs) = Cardinality(PolygonsFolders) + Cardinality(PointsFolders)
            /\ \A i \in PolygonsFolders : \A j \in PointsFolders : i < j
            /\ \A i \in PolygonsFolders :
                  /\ Len(fs[i].placemarks) = Len(parcels)
                  /\ \A p \in 1..Len(parcels) :
                        /\ fs[i].placemarks[p].styleUrl = "#parcelStyle"
                        /\ fs[i].placemarks[p].geometry.tag
                             = (IF parcels[p].geometry.type = "POLYGON"
                                THEN "Polygon" ELSE "MultiGeometry")
            /\ \A j \in PointsFolders :
                  /\ Len(fs[j].placemarks) = TotalVertices(parcels)
                  /\ \A k \in 1..Len(fs[j].placemarks) :
                        /\ fs[j].placemarks[k].styleUrl = "#pointStyle"
                        /\ fs[j].placemarks[k].geometry.tag = "Point"

\* a document with both folders for two parcels of different kinds
C11_Witness ==
    /\ KmlReturned
    /\ options.includePolygons /\ options.includePoints
    /\ Len(parcels) = 2
    /\ parcels[1].geometry.type # parcels[2].geometry.type
    /\ Len(kmlOut.value.folders) = 2
    /\ Len(kmlOut.value.folders[2].placemarks) > 2

(***************************************************************************)
(* C12: every place where generateKmlWithLayers inserts a parcel id (name  *)
(* and description of the parcel's polygon placemark and of each of its    *)
(* point placemarks) carries the id with each of & < > " ' replaced by its *)
(* entity, character by character, so that no entity is escaped twice and  *)
(* no raw reserved character of the id is in the document.                 *)
(***************************************************************************)
C12_Entity(ch) ==
    CASE ch = "&" -> << "&", "a", "m", "p", ";" >>
      [] ch = "<" -> << "&", "l", "t", ";" >>
      [] ch = ">" -> << "&", "g", "t", ";" >>
      [] ch = "\"" -> << "&", "q", "u", "o", "t", ";" >>
      [] ch = "'" -> << "&", "a", "p", "o", "s", ";" >>
      [] OTHER -> << ch >>

RECURSIVE C12_Escaped(_)
C12_Escaped(id) ==
    IF Len(id) = 0 THEN << >> ELSE C12_Entity(Head(id)) \o C12_Escaped(Tail(id))

\* the text has no raw < > " ', and each & begins one of the five entities
C12_NoRawReserved(text) ==
    \A i \in 1..Len(text) :
        /\ text[i] \notin {"<", ">", "\"", "'"}
        /\ text[i] = "&" =>
              \E ch \in {"&", "<", ">", "\"", "'"} :
                  /\ i + Len(C12_Entity(ch)) - 1 <= Len(text)
                  /\ SubSeq(text, i, i + Len(C12_Entity(ch)) - 1) = C12_Entity(ch)

C12_IdsEscaped ==
    KmlReturned =>
        LET fs == kmlOut.value.folders
        IN  /\ \A i \in PolygonsFolders : \A p \in 1..Len(fs[i].placemarks) :
                  LET pm == fs[i].placemarks[p]
                  IN  /\ pm.name = C12_Escaped(parcels[p].id)
                      /\ pm.description
                           = << "Dzialka ewidencyjna: " >> \o C12_Escaped(parcels[p].id)
                      /\ C12_NoRawReserved(pm.name)
                      /\ C12_NoRawReserved(pm.description)
            /\ \A j \in PointsFolders : \A p \in 1..Len(parcels) :
                  \A k \in 1..Len(parcels[p].vertices) :
                      LET pm == fs[j].placemarks[VertexOffset(parcels, p) + k]
                      IN  /\ SubSeq(pm.name, 1, Len(pm.name) - 2)
                               = C12_Escaped(parcels[p].id)
                          /\ SubSeq(pm.description, 2, Len(pm.description) - 2)
                               = C12_Escaped(parcels[p].id)
                          /\ C12_NoRawReserved(pm.name)
                          /\ C12_NoRawReserved(pm.description)

\* a document with both folders for the ids A&<B (second parcel) and 14.7
C12_Witness ==
    /\ KmlReturned
    /\ options.includePolygons /\ options.includePoints
    /\ Len(parcels) = 2
    /\ parcels[2].id = << "A", "&", "<", "B" >>
    /\ kmlOut.value.folders[1].placemarks[2].name
         = << "A", "&", "a", "m", "p", ";", "&", "l", "t", ";", "B" >>

(***************************************************************************)
(* C13: in the KML document a Polygon geometry is one Polygon element: the *)
(* first ring as outer boundary, then one inner boundary per remaining     *)
(* ring in ring order; a MultiPolygon geometry is one MultiGeometry        *)
(* element holding one such Polygon element per sub-polygon, in            *)
(* sub-polygon order.                                                      *)
(***************************************************************************)
\* the "lng,lat,0" triples of a ring, in order
C13_RingText(ring) ==
    [i \in 1..Length(ring) |-> << Items(ring)[i].lng, Items(ring)[i].lat, 0 >>]

C13_PolygonElement(el, rings) ==
    /\ el.tag = "Polygon"
    /\ el.outerBoundaryIs = C13_RingText(Items(rings)[1])
    /\ Len(el.innerBoundaryIs) = Length(rings) - 1
    /\ \A r \in 2..Length(rings) :
          el.innerBoundaryIs[r - 1] = C13_RingText(Items(rings)[r])

C13_GeometryElements ==
    KmlReturned =>
        \A i \in PolygonsFolders : \A p \in 1..Len(parcels) :
            LET el == kmlOut.value.folders[i].placemarks[p].geometry
                g == parcels[p].geometry
            IN  IF g.type = "POLYGON" THEN C13_PolygonElement(el, g.coordinates)
                ELSE /\ el.tag = "MultiGeometry"
                     /\ Len(el.polygons) = Length(g.coordinates)
                     /\ \A s \in 1..Length(g.coordinates) :
                           C13_PolygonElement(el.polygons[s], Items(g.coordinates)[s])

\* a Polygon with a hole and a MultiPolygon of two sub-polygons, the second
\* with a hole, both written
C13_Witness ==
    /\ KmlReturned /\ options.includePolygons
    /\ Len(parcels) = 2
    /\ parcels[1].geometry = Polygon(<< Square, Outlier >>)
    /\ parcels[2].geometry = MultiPolygon(<< << Triangle >>, << Square, Outlier >> >>)
    /\ Len(kmlOut.value.folders[1].placemarks[1].geometry.innerBoundaryIs) = 1
    /\ Len(kmlOut.value.folders[1].placemarks[2].geometry.polygons) = 2

(***************************************************************************)
(* The download functions: downloadGpkgWithLayers, downloadKmlWithLayers   *)
(* and downloadGeojsonWithLayers, called in any order on one parcel list   *)
(* and one set of options.  JavaScript runs one piece of synchronous code  *)
(* at a time: a call of downloadGpkgWithLayers runs up to the await of     *)
(* window.initSqlJs (or, with the memo set, to its end), and after the     *)
(* engine arrived it runs to its end before any other call starts; active  *)
(* names the call between these two points.                                *)
(***************************************************************************)
MaxCalls == 2

DownloadLists ==
    {<< >>,
     << Parcel(ParcelIds[1], Polygon(<< Square, Outlier >>)) >>,
     << Parcel(ParcelIds[1], MultiPolygon(<< << Pinched >> >>)) >>,
     << Parcel(ParcelIds[1], Polygon(<< Triangle >>)),
        Parcel(ParcelIds[2], MultiPolygon(<< << Triangle >>, << Square, Outlier >> >>)) >>}

Call(format, pc, engine) == [format |-> format, pc |-> pc, engine |-> engine]
File(format, call, content) == [format |-> format, call |-> call, content |-> content]

\* downloadGpkgWithLayers -> generateGpkgWithLayers -> initSqlJs:
\*   if (SQL) return SQL;  SQL = await window.initSqlJs({...})
DownloadGpkgWithLayers ==
    /\ active = 0
    /\ Len(calls) < MaxCalls
    /\ IF SQL # NoInstance
       THEN /\ calls' = Append(calls, Call("gpkg", "running", SQL))
            /\ active' = Len(calls) + 1
            /\ gpkgPc' = 2
            /\ inits' = inits
       ELSE /\ inits' = Append(inits, "pending")
            /\ calls' = Append(calls, Call("gpkg", "awaiting", Len(inits) + 1))
            /\ active' = active
            /\ gpkgPc' = gpkgPc
    /\ UNCHANGED <<encVars, wktVars, restVars, parcels, options, db, bbox, timestamp, gpkgData,
                   geojsonOut, kmlOut, SQL, downloads>>

\* window.initSqlJs resolved: SQL = <the instance>; return SQL; the caller
\* goes on with new SqlJs.Database()
EngineResolved(c) ==
    /\ active = 0
    /\ calls[c].pc = "awaiting"
    /\ inits' = [inits EXCEPT ![calls[c].engine] = "resolved"]
    /\ SQL' = calls[c].engine
    /\ calls' = [calls EXCEPT ![c].pc = "running"]
    /\ active' = c
    /\ gpkgPc' = 2
    /\ UNCHANGED <<encVars, wktVars, restVars, parcels, options, db, bbox, timestamp, gpkgData,
                   geojsonOut, kmlOut, downloads>>

\* window.initSqlJs rejected: the await throws, SQL keeps its value, the
\* exception leaves generateGpkgWithLayers and downloadGpkgWithLayers
EngineRejected(c) ==
    /\ active = 0
    /\ calls[c].pc = "awaiting"
    /\ inits' = [inits EXCEPT ![calls[c].engine] = "rejected"]
    /\ calls' = [calls EXCEPT ![c].pc = "engine_failed"]
    /\ UNCHANGED <<encVars, wktVars, restVars, parcels, options, gpkgPc, db, bbox, timestamp,
                   gpkgData, geojsonOut, kmlOut, SQL, active, downloads>>

\* const gpkgData = await generateGpkgWithLayers(..); downloadGpkgFile(gpkgData, ..)
DownloadGpkgFile ==
    /\ active # 0
    /\ gpkgData.status = "returned"
    /\ downloads' = Append(downloads, File("gpkg", active, gpkgData.value))
    /\ calls' = [calls EXCEPT ![active].pc = "downloaded"]
    /\ active' = 0
    /\ gpkgPc' = 0
    /\ gpkgData' = NotCalled
    /\ bbox' = NoBbox
    /\ timestamp' = 0
    /\ UNCHANGED <<encVars, wktVars, restVars, parcels, options, db, geojsonOut, kmlOut, SQL, inits>>

\* the await of generateGpkgWithLayers throws: downloadGpkgFile is not reached
DownloadGpkgThrows ==
    /\ active # 0
    /\ gpkgData.status = "thrown"
    /\ calls' = [calls EXCEPT ![active].pc = "export_failed"]
    /\ active' = 0
    /\ gpkgPc' = 0
    /\ gpkgData' = NotCalled
    /\ bbox' = NoBbox
    /\ timestamp' = 0
    /\ UNCHANGED <<encVars, wktVars, restVars, parcels, options, db, geojsonOut, kmlOut, SQL, inits,
                   downloads>>

\* the parcel list reversed in place before the document is generated
DownloadKmlWithLayersReversing ==
    /\ active = 0
    /\ Len(calls) < MaxCalls
    /\ parcels' = [i \in 1..Len(parcels) |-> parcels[Len(parcels) + 1 - i]]
    /\ \E t \in Times :
          downloads' = Append(downloads, File("kml", Len(calls) + 1,
                                              GenerateKmlWithLayers(parcels', options, t)))
    /\ calls' = Append(calls, Call("kml", "downloaded", NoInstance))
    /\ UNCHANGED <<encVars, wktVars, restVars, options, gpkgPc, db, bbox, timestamp, gpkgData,
                   geojsonOut, kmlOut, SQL, inits, active>>

\* const kmlContent = generateKmlWithLayers(..); downloadKmlFile(kmlContent, ..)
DownloadKmlWithLayers ==
    /\ active = 0
    /\ Len(calls) < MaxCalls
    /\ \E t \in Times :
          downloads' = Append(downloads, File("kml", Len(calls) + 1,
                                              GenerateKmlWithLayers(parcels, options, t)))
    /\ calls' = Append(calls, Call("kml", "downloaded", NoInstance))
    /\ UNCHANGED <<encVars, wktVars, restVars, expVars, SQL, inits, active>>

\* const geojsonContent = generateGeojsonWithLayers(..); downloadGeojsonFile(..)
DownloadGeojsonWithLayers ==
    /\ active = 0
    /\ Len(calls) < MaxCalls
    /\ downloads' = Append(downloads, File("geojson", Len(calls) + 1,
                                           GenerateGeojsonWithLayers(parcels, options)))
    /\ calls' = Append(calls, Call("geojson", "downloaded", NoInstance))
    /\ UNCHANGED <<encVars, wktVars, restVars, expVars, SQL, inits, active>>

InitDownload ==
    /\ encArgs = NoArgs
    /\ encOut = NoResult
    /\ parcels \in DownloadLists
    /\ options \in ExportOptions
    /\ gpkgPc = 0
    /\ db = NewDatabase
    /\ bbox = NoBbox
    /\ timestamp = 0
    /\ gpkgData = NotCalled
    /\ geojsonOut = NotCalled
    /\ kmlOut = NotCalled
    /\ DownloadIdle
    /\ ParserIdle
    /\ RestIdle

NextDownload ==
    \/ DownloadGpkgWithLayers
    \/ \E c \in 1..Len(calls) : EngineResolved(c)
    \/ \E c \in 1..Len(calls) : EngineRejected(c)
    \/ GpkgNewDatabase
    \/ GpkgCreateTable
    \/ GpkgInsertSrs
    \/ GpkgTimestamp
    \/ GpkgInsertRows
    \/ GpkgInsertContents
    \/ GpkgInsertGeometryColumns
    \/ GpkgExport
    \/ DownloadGpkgFile
    \/ DownloadGpkgThrows
    \/ DownloadKmlWithLayers
    \/ DownloadGeojsonWithLayers

SpecDownload == InitDownload /\ [][NextDownload]_vars

(***************************************************************************)
(* Reading the download log (used by the properties below)                 *)
(***************************************************************************)
FilesOf(format) == {k \in 1..Len(downloads) : downloads[k].format = format}
CallsOf(format) == {c \in 1..Len(calls) : calls[c].format = format}

(***************************************************************************)
(* C14: two calls of one exporter on the same parcel list and options give *)
(* the same output except for the timestamp: the GeoJSON documents are     *)
(* equal; the KML documents are equal but for the timestamp that ends the  *)
(* document description; the GeoPackage databases are equal but for the    *)
(* last_change column of gpkg_contents, and two GeoPackage exports that    *)
(* got an engine both succeed or both fail.                                *)
(***************************************************************************)
C14_KmlWithoutTime(doc) ==
    [doc EXCEPT !.description = SubSeq(doc.description, 1, Len(doc.description) - 1)]

C14_GpkgWithoutTime(d) ==
    [d EXCEPT !.gpkg_contents =
        [i \in 1..Len(d.gpkg_contents) |-> [d.gpkg_contents[i] EXCEPT !.last_change = 0]]]

C16_InitializedOnce ==
    \A i \in 1..Len(inits) : \A j \in 1..Len(inits) :
        i < j => inits[i] = "rejected"

(***************************************************************************)
(* C17: a GeoPackage export in which the engine initialization or a table  *)
(* or row operation failed hands no file to the browser; a file is handed  *)
(* over only by a call that ran to its end, and it is the complete         *)
(* database: every statement of the export took effect.                    *)
(***************************************************************************)
C17_Complete(d) ==
    /\ ~d.error
    /\ d.tables = RegistryTables
                    \cup {layer \in {"polygons", "points"} : C8_Included(layer)}
    /\ Len(d.gpkg_spatial_ref_sys) = 1
    /\ \A layer \in {"polygons", "points"} :
          LET n == IF C8_Included(layer) THEN 1 ELSE 0
          IN  /\ Cardinality(C8_RowsOf(d.gpkg_contents, layer)) = n
              /\ Cardinality(C8_RowsOf(d.gpkg_geometry_columns, layer)) = n
    /\ options.includePolygons => Len(d.polygons) = Len(parcels)
    /\ options.includePoints => Len(d.points) = TotalVertices(parcels)

C17_NoPartialFile ==
    /\ \A k \in FilesOf("gpkg") :
          /\ downloads[k].call \in CallsOf("gpkg")
          /\ calls[downloads[k].call].pc = "downloaded"
          /\ C17_Complete(downloads[k].content)
    /\ \A c \in CallsOf("gpkg") :
          Cardinality({k \in FilesOf("gpkg") : downloads[k].call = c})
            = (IF calls[c].pc = "downloaded" THEN 1 ELSE 0)

\* one call failed at the engine, another in a row operation, nothing was
\* handed over
C17_Witness ==
    /\ \E c \in CallsOf("gpkg") : calls[c].pc = "engine_failed"
    /\ \E c \in CallsOf("gpkg") : calls[c].pc = "export_failed"
    /\ downloads = << >>

(***************************************************************************)
(* parseWkt (WktParser.js).  A string is Str(chars), chars being the       *)
(* sequence of its characters, one string each; null, undefined and a      *)
(* number are other tagged values.  The regular expressions of the parser  *)
(* are modelled by what they match: \s is IsSpace, \d is IsDigit, the dot  *)
(* is IsDot, and a quantifier takes the longest run that lets the rest of  *)
(* the pattern match.                                                      *)
(***************************************************************************)
Str(chars) == [k |-> "str", chars |-> chars]
Num(v) == [k |-> "num", v |-> v]
UndefinedValue == [k |-> "undefined"]

LowerCase == << "a", "b", "c", "d", "e", "f", "g", "h", "i", "j", "k", "l", "m",
                "n", "o", "p", "q", "r", "s", "t", "u", "v", "w", "x", "y", "z" >>
UpperCase == << "A", "B", "C", "D", "E", "F", "G", "H", "I", "J", "K", "L", "M",
                "N", "O", "P", "Q", "R", "S", "T", "U", "V", "W", "X", "Y", "Z" >>
DecimalDigits == << "0", "1", "2", "3", "4", "5", "6", "7", "8", "9" >>

UpperOf(ch) ==
    IF \E i \in 1..Len(LowerCase) : LowerCase[i] = ch
    THEN UpperCase[CHOOSE i \in 1..Len(LowerCase) : LowerCase[i] = ch]
    ELSE ch
\* wkt.toUpperCase()
ToUpperCase(s) == [i \in 1..Len(s) |-> UpperOf(s[i])]

IsSpace(ch) == ch \in {" ", "\t", "\n", "\r"}
IsDigit(ch) == \E i \in 1..Len(DecimalDigits) : DecimalDigits[i] = ch
IsDot(ch) == ch \notin {"\n", "\r"}
DigitValue(ch) == (CHOOSE i \in 1..Len(DecimalDigits) : DecimalDigits[i] = ch) - 1

\* upperWkt.startsWith(prefix)
StartsWith(s, prefix) ==
    Len(prefix) <= Len(s) /\ SubSeq(s, 1, Len(prefix)) = prefix

RECURSIVE TrimStart(_)
TrimStart(s) == IF Len(s) > 0 /\ IsSpace(s[1]) THEN TrimStart(Tail(s)) ELSE s
RECURSIVE TrimEnd(_)
TrimEnd(s) ==
    IF Len(s) > 0 /\ IsSpace(s[Len(s)]) THEN TrimEnd(SubSeq(s, 1, Len(s) - 1)) ELSE s
\* str.trim()
Trim(s) == TrimEnd(TrimStart(s))

RECURSIVE SkipSpaces(_, _)
\* \s* from position i: the position of the first character that is no space
SkipSpaces(s, i) == IF i <= Len(s) /\ IsSpace(s[i]) THEN SkipSpaces(s, i + 1) ELSE i

RECURSIVE SkipDigits(_, _)
\* \d* from position i
SkipDigits(s, i) == IF i <= Len(s) /\ IsDigit(s[i]) THEN SkipDigits(s, i + 1) ELSE i

KeywordSrid == << "S", "R", "I", "D", "=" >>
KeywordPolygon == << "P", "O", "L", "Y", "G", "O", "N" >>
KeywordMultiPolygon == << "M", "U", "L", "T", "I" >> \o KeywordPolygon

\* wkt.replace(/^SRID=\d+;/i, "").trim()
RemoveSridPrefix(wkt) ==
    LET e == SkipDigits(wkt, Len(KeywordSrid) + 1)
        matches == /\ StartsWith(ToUpperCase(wkt), KeywordSrid)
                   /\ e > Len(KeywordSrid) + 1
                   /\ e <= Len(wkt)
                   /\ wkt[e] = ";"
    IN  Trim(IF matches THEN SubSeq(wkt, e + 1, Len(wkt)) ELSE wkt)

\* the keyword looked for anywhere in the text (includes for startsWith)
DetectGeometryTypeAnywhere(wkt) ==
    IF \E i \in 1..Len(wkt) :
          StartsWith(ToUpperCase(SubSeq(wkt, i, Len(wkt))), KeywordMultiPolygon)
    THEN "MULTIPOLYGON"
    ELSE IF \E i \in 1..Len(wkt) :
               StartsWith(ToUpperCase(SubSeq(wkt, i, Len(wkt))), KeywordPolygon)
    THEN "POLYGON"
    ELSE "throw"

\* the keyword first, MULTIPOLYGON before POLYGON; "throw" for the Error
DetectGeometryType(wkt) ==
    IF StartsWith(ToUpperCase(wkt), KeywordMultiPolygon) THEN "MULTIPOLYGON"
    ELSE IF StartsWith(ToUpperCase(wkt), KeywordPolygon) THEN "POLYGON"
    ELSE "throw"

\* /KEYWORD\s*\({depth}(.+)\){depth}/i tried at position i: << match[1] >>,
\* or << >> when the pattern does not match there
CaptureAt(s, i, keyword, depth) ==
    LET open == SkipSpaces(s, i + Len(keyword))
        from == open + depth
        ends == {j \in from..(Len(s) - depth) :
                    /\ \A k \in from..j : IsDot(s[k])
                    /\ \A k \in (j + 1)..(j + depth) : s[k] = ")"}
    IN  IF /\ i + Len(keyword) - 1 <= Len(s)
           /\ ToUpperCase(SubSeq(s, i, i + Len(keyword) - 1)) = keyword
           /\ open + depth - 1 <= Len(s)
           /\ \A k \in open..(open + depth - 1) : s[k] = "("
           /\ ends # {}
        THEN << SubSeq(s, from, CHOOSE j \in ends : \A h \in ends : h <= j) >>
        ELSE << >>

RECURSIVE MatchFrom(_, _, _, _)
\* the match at the leftmost position from i on that has one
MatchFrom(s, i, keyword, depth) ==
    IF i > Len(s) THEN << >>
    ELSE LET m == CaptureAt(s, i, keyword, depth)
         IN  IF m # << >> THEN m ELSE MatchFrom(s, i + 1, keyword, depth)

\* wkt.match(/KEYWORD\s*\({depth}(.+)\){depth}/i)
MatchKeyword(s, keyword, depth) == MatchFrom(s, 1, keyword, depth)

RECURSIVE MatchSeparator(_, _, _, _)
\* a separator pattern is a list of literal characters with \s* between
\* them: the position after the match that starts at i, or 0
MatchSeparator(s, i, literals, k) ==
    IF k > Len(literals) THEN i
    ELSE LET at == IF k = 1 THEN i ELSE SkipSpaces(s, i)
         IN  IF at <= Len(s) /\ s[at] = literals[k]
             THEN MatchSeparator(s, at + 1, literals, k + 1)
             ELSE 0

RECURSIVE SplitFrom(_, _, _, _)
SplitFrom(s, literals, start, i) ==
    IF i > Len(s) THEN << SubSeq(s, start, Len(s)) >>
    ELSE LET after == MatchSeparator(s, i, literals, 1)
         IN  IF after # 0
             THEN << SubSeq(s, start, i - 1) >> \o SplitFrom(s, literals, after, after)
             ELSE SplitFrom(s, literals, start, i + 1)
\* str.split(/separator/)
Split(s, literals) == SplitFrom(s, literals, 1, 1)

RingSeparator == << ")", ",", "(" >>
PolygonSeparator == << ")", ")", ",", "(", "(" >>

RECURSIVE SplitSpacesFrom(_, _, _)
SplitSpacesFrom(s, start, i) ==
    IF i > Len(s) THEN << SubSeq(s, start, Len(s)) >>
    ELSE IF IsSpace(s[i])
         THEN << SubSeq(s, start, i - 1) >>
              \o SplitSpacesFrom(s, SkipSpaces(s, i), SkipSpaces(s, i))
         ELSE SplitSpacesFrom(s, start, i + 1)
\* str.split(/\s+/)
SplitSpaces(s) == SplitSpacesFrom(s, 1, 1)

RECURSIVE DigitsValue(_)
DigitsValue(s) ==
    IF Len(s) = 0 THEN 0
    ELSE 10 * DigitsValue(SubSeq(s, 1, Len(s) - 1)) + DigitValue(s[Len(s)])

\* Number(token) for a token without white space: 0 for the empty string,
\* the value of an optionally signed run of digits, NaN for a token with
\* another character.  (Tokens with a fraction, an exponent or a radix
\* prefix are numbers too; no input of the model has one.)
StringToNumber(token) ==
    LET signed == Len(token) > 0 /\ token[1] \in {"-", "+"}
        digits == IF signed THEN Tail(token) ELSE token
    IN  IF Len(token) = 0 THEN 0
        ELSE IF Len(digits) > 0 /\ \A i \in 1..Len(digits) : IsDigit(digits[i])
        THEN (IF token[1] = "-" THEN 0 - DigitsValue(digits) ELSE DigitsValue(digits))
        ELSE NaN

(***************************************************************************)
(* parseCoordinatePairs, parseRings, parsePolygon, parseMultiPolygon.  A   *)
(* map over the pieces of a split stops at the first piece that throws;    *)
(* log lists the arguments of the calls of coordinateTransformer.toWGS84   *)
(* made so far.                                                            *)
(***************************************************************************)
Parsed(items, log) == [status |-> "ok", items |-> items, log |-> log]
ParseFailed(log) == [status |-> "thrown", items |-> << >>, log |-> log]

\* coordinateTransformer.toWGS84(x, y): proj4 is an external library.  For
\* two numbers the model takes lng from x and lat from y; for a missing y
\* the library either throws (strict) or yields NaN coordinates.
ToWGS84(x, y, strict) ==
    IF y = Undefined
    THEN (IF strict THEN ParseFailed(<< << x, y >> >>)
          ELSE Parsed(<< Pt(NaN, NaN) >>, << << x, y >> >>))
    ELSE Parsed(<< Pt(y, x) >>, << << x, y >> >>)

\* const [x, y] = pair.trim().split(/\s+/).map(Number)
PairNumbers(pair) ==
    LET tokens == SplitSpaces(Trim(pair))
    IN  [x |-> StringToNumber(tokens[1]),
         y |-> IF Len(tokens) >= 2 THEN StringToNumber(tokens[2]) ELSE Undefined]

\* Number.isNaN(x) || Number.isNaN(y): undefined is not NaN
ParsePair(pair, strict) ==
    LET n == PairNumbers(pair)
    IN  IF n.x = NaN \/ n.y = NaN THEN ParseFailed(<< >>)
        ELSE ToWGS84(n.x, n.y, strict)

RECURSIVE MapPieces(_, _, _, _, _)
\* pieces.map(F): acc holds the results and the log of the pieces before i
MapPieces(F(_, _), acc, pieces, i, strict) ==
    IF i > Len(pieces) THEN acc
    ELSE LET r == F(pieces[i], strict)
         IN  IF r.status = "thrown" THEN ParseFailed(acc.log \o r.log)
             ELSE MapPieces(F, Parsed(acc.items \o r.items, acc.log \o r.log),
                            pieces, i + 1, strict)

IsNoParenthesis(ch) == ch \notin {"(", ")"}

\* the array of coordinates of one ring
ParseCoordinatePairs(coordinateString, strict) ==
    LET cleaned == Trim(SelectSeq(coordinateString, IsNoParenthesis))
        r == MapPieces(ParsePair, Parsed(<< >>, << >>), Split(cleaned, << "," >>), 1, strict)
    IN  IF r.status = "thrown" THEN r ELSE Parsed(<< Arr(r.items) >>, r.log)

\* the rings taken in the reverse order
ParseRingsReversed(ringContent, strict) ==
    LET pieces == Split(ringContent, RingSeparator)
        r == MapPieces(ParseCoordinatePairs, Parsed(<< >>, << >>),
                       [i \in 1..Len(pieces) |-> pieces[Len(pieces) + 1 - i]], 1, strict)
    IN  IF r.status = "thrown" THEN r ELSE Parsed(<< Arr(r.items) >>, r.log)

\* the array of rings of one polygon
ParseRings(ringContent, strict) ==
    LET r == MapPieces(ParseCoordinatePairs, Parsed(<< >>, << >>),
                       Split(ringContent, RingSeparator), 1, strict)
    IN  IF r.status = "thrown" THEN r ELSE Parsed(<< Arr(r.items) >>, r.log)

WktReturned(geometry, log) == [status |-> "returned", geometry |-> geometry, log |-> log]
WktThrown(log) == [status |-> "thrown", geometry |-> Null, log |-> log]

ParsePolygon(wkt, strict) ==
    LET match == MatchKeyword(wkt, KeywordPolygon, 2)
    IN  IF match = << >> THEN WktThrown(<< >>)
        ELSE LET r == ParseRings(match[1], strict)
             IN  IF r.status = "thrown" THEN WktThrown(r.log)
                 ELSE WktReturned([type |-> "POLYGON", coordinates |-> r.items[1]], r.log)

ParseMultiPolygon(wkt, strict) ==
    LET match == MatchKeyword(wkt, KeywordMultiPolygon, 3)
    IN  IF match = << >> THEN WktThrown(<< >>)
        ELSE LET r == MapPieces(ParseRings, Parsed(<< >>, << >>),
                                Split(match[1], PolygonSeparator), 1, strict)
             IN  IF r.status = "thrown" THEN WktThrown(r.log)
                 ELSE WktReturned([type |-> "MULTIPOLYGON", coordinates |-> Arr(r.items)],
                                  r.log)

ParseWkt(value, strict) ==
    IF value.k # "str" \/ value.chars = << >> THEN WktThrown(<< >>)
    ELSE LET cleanedWkt == RemoveSridPrefix(value.chars)
             geometryType == DetectGeometryType(cleanedWkt)
         IN  IF geometryType = "POLYGON" THEN ParsePolygon(cleanedWkt, strict)
             ELSE IF geometryType = "MULTIPOLYGON" THEN ParseMultiPolygon(cleanedWkt, strict)
             ELSE WktThrown(<< >>)

(***************************************************************************)
(* The parser under test: one call of parseWkt on a value drawn from the   *)
(* pool below: every text made of a prefix, a keyword and a body, and      *)
(* four values that are no strings.                                        *)
(***************************************************************************)
\* "", "SRID=2180;", "srid=4; ", "SRID=;" and " "
WktPrefixes ==
    {<< >>,
     << "S", "R", "I", "D", "=", "2", "1", "8", "0", ";" >>,
     << "s", "r", "i", "d", "=", "4", ";", " " >>,
     << "S", "R", "I", "D", "=", ";" >>,
     << " " >>}

\* POLYGON, polygon, MULTIPOLYGON, LINESTRING, XPOLYGON, "POLYGON " and ""
WktKeywords ==
    {<< "P", "O", "L", "Y", "G", "O", "N" >>,
     << "p", "o", "l", "y", "g", "o", "n" >>,
     << "M", "U", "L", "T", "I", "P", "O", "L", "Y", "G", "O", "N" >>,
     << "L", "I", "N", "E", "S", "T", "R", "I", "N", "G" >>,
     << "X", "P", "O", "L", "Y", "G", "O", "N" >>,
     << "P", "O", "L", "Y", "G", "O", "N", " " >>,
     << >>}

\* the bodies, in this order:
\*   ((1 2,3 4,5 6,1 2))
\*   ((1 2,3 4,5 6,1 2),(7 8,9 10,7 8))
\*   (((1 2,3 4,5 6,1 2)))
\*   (((1 2,3 4,1 2)),((5 6,7 8,5 6),(9 9,8 8,9 9)))
\*   ((1 2,3 a,1 2))
\*   ((1 2,3,1 2))
\*   ((1 2,3 4,))
\*   ((1 2,3 4,1 2)) x
\*   ((1 2,(3 4),1 2))
\*   (1 2,3 4,1 2)
\*   ((1 2,3 4,1 2)
\*   ((1 2,3 4,1 2)))
\*   (0 0, 1 1)
\*   (empty)
\*   (( 1  2 , -3 4 ,1 2 ))
\*   ((1 2 3,4 5,1 2))
\*   (( ))
WktBodies ==
    {<< "(", "(", "1", " ", "2", ",", "3", " ", "4", ",", "5", " ", "6", ",", "1", " ",
        "2", ")", ")" >>,
     << "(", "(", "1", " ", "2", ",", "3", " ", "4", ",", "5", " ", "6", ",", "1", " ",
        "2", ")", ",", "(", "7", " ", "8", ",", "9", " ", "1", "0", ",", "7", " ", "8",
        ")", ")" >>,
     << "(", "(", "(", "1", " ", "2", ",", "3", " ", "4", ",", "5", " ", "6", ",", "1",
        " ", "2", ")", ")", ")" >>,
     << "(", "(", "(", "1", " ", "2", ",", "3", " ", "4", ",", "1", " ", "2", ")", ")",
        ",", "(", "(", "5", " ", "6", ",", "7", " ", "8", ",", "5", " ", "6", ")", ",",
        "(", "9", " ", "9", ",", "8", " ", "8", ",", "9", " ", "9", ")", ")", ")" >>,
     << "(", "(", "1", " ", "2", ",", "3", " ", "a", ",", "1", " ", "2", ")", ")" >>,
     << "(", "(", "1", " ", "2", ",", "3", ",", "1", " ", "2", ")", ")" >>,
     << "(", "(", "1", " ", "2", ",", "3", " ", "4", ",", ")", ")" >>,
     << "(", "(", "1", " ", "2", ",", "3", " ", "4", ",", "1", " ", "2", ")", ")", " ",
        "x" >>,
     << "(", "(", "1", " ", "2", ",", "(", "3", " ", "4", ")", ",", "1", " ", "2", ")",
        ")" >>,
     << "(", "1", " ", "2", ",", "3", " ", "4", ",", "1", " ", "2", ")" >>,
     << "(", "(", "1", " ", "2", ",", "3", " ", "4", ",", "1", " ", "2", ")" >>,
     << "(", "(", "1", " ", "2", ",", "3", " ", "4", ",", "1", " ", "2", ")", ")",
        ")" >>,
     << "(", "0", " ", "0", ",", " ", "1", " ", "1", ")" >>,
     << >>,
     << "(", "(", " ", "1", " ", " ", "2", " ", ",", " ", "-", "3", " ", "4", " ", ",",
        "1", " ", "2", " ", ")", ")" >>,
     << "(", "(", "1", " ", "2", " ", "3", ",", "4", " ", "5", ",", "1", " ", "2", ")",
        ")" >>,
     << "(", "(", " ", ")", ")" >>}

WktTexts == {p \o w \o b : p \in WktPrefixes, w \in WktKeywords, b \in WktBodies}

WktInputs == {Str(t) : t \in WktTexts} \cup {Null, UndefinedValue, Num(0), Num(5)}

EncoderIdle == encArgs = NoArgs /\ encOut = NoResult

InitParser ==
    /\ wktString \in WktInputs
    /\ wktOut = NotParsed
    /\ EncoderIdle
    /\ ExportIdle
    /\ DownloadIdle
    /\ RestIdle

\* parseWkt(wktString), with either behaviour of the projection library on
\* a missing coordinate
ParseWktCall ==
    /\ wktOut = NotParsed
    /\ \E strict \in BOOLEAN : wktOut' = ParseWkt(wktString, strict)
    /\ UNCHANGED <<encVars, expVars, dlVars, wktString, restVars>>

NextParser == ParseWktCall

SpecParser == InitParser /\ [][NextParser]_vars

(***************************************************************************)
(* Reading a parseWkt call (used by the properties below)                  *)
(***************************************************************************)
WktCalled == wktOut.status # "none"
WktIsText == wktString.k = "str"

HasKeyword(text) ==
    \/ StartsWith(ToUpperCase(text), KeywordPolygon)
    \/ StartsWith(ToUpperCase(text), KeywordMultiPolygon)

\* the text after the SRID=<digits>; prefix, or the whole text when it has
\* no such prefix
C18_AfterSrid(chars) ==
    LET semicolons == {e \in 7..Len(chars) :
                          /\ chars[e] = ";"
                          /\ ToUpperCase(SubSeq(chars, 1, 5)) = KeywordSrid
                          /\ \A k \in 6..(e - 1) : IsDigit(chars[k])}
    IN  IF semicolons = {} THEN chars
        ELSE SubSeq(chars, (CHOOSE e \in semicolons : TRUE) + 1, Len(chars))

C18_Rejected == wktOut.status = "thrown" /\ wktOut.geometry = Null

(***************************************************************************)
(* C18 as stated: parseWkt throws, and returns no geometry, for every      *)
(* input that is empty or no string, and for every input whose text after  *)
(* the optional SRID prefix does not start, case-insensitively, with       *)
(* POLYGON or MULTIPOLYGON.                                                *)
(***************************************************************************)
C18_RejectsUnsupported ==
    (WktCalled /\ (~WktIsText \/ ~HasKeyword(C18_AfterSrid(wktString.chars))))
        => C18_Rejected

(***************************************************************************)
(* C18 as amended: parseWkt throws, and returns no geometry, for every     *)
(* input that is empty or no string, and for every input whose text after  *)
(* the optional SRID prefix, with the white space at its ends removed,     *)
(* does not start, case-insensitively, with POLYGON or MULTIPOLYGON.       *)
(***************************************************************************)
C18_RejectsUnsupportedTrimmed ==
    (WktCalled /\ (~WktIsText \/ ~HasKeyword(Trim(C18_AfterSrid(wktString.chars)))))
        => C18_Rejected

\* parseWkt("LINESTRING(0 0, 1 1)") has thrown
C18_Witness ==
    /\ WktIsText
    /\ wktString.chars = << "L", "I", "N", "E", "S", "T", "R", "I", "N", "G",
                            "(", "0", " ", "0", ",", " ", "1", " ", "1", ")" >>
    /\ C18_Rejected

(***************************************************************************)
(* C19: parseWkt throws whenever some coordinate pair of the input is not  *)
(* two numbers (a token that is no number, a single token, an empty pair), *)
(* and coordinateTransformer.toWGS84 is never called with a missing or     *)
(* non-numeric coordinate.                                                 *)
(***************************************************************************)
\* the pairs of a text: what stands between the commas after the first
\* parenthesis, the parentheses left out
C19_Pairs(chars) ==
    LET opens == {i \in 1..Len(chars) : chars[i] = "("}
        first == CHOOSE i \in opens : \A h \in opens : i <= h
    IN  IF opens = {} THEN << >>
        ELSE Split(SelectSeq(SubSeq(chars, first, Len(chars)), IsNoParenthesis), << "," >>)

C19_TokensOf(pair) ==
    SelectSeq(SplitSpaces(Trim(pair)), LAMBDA token : token # << >>)

C19_IsTwoNumbers(pair) ==
    /\ Len(C19_TokensOf(pair)) >= 2
    /\ \A i \in 1..Len(C19_TokensOf(pair)) : StringToNumber(C19_TokensOf(pair)[i]) # NaN

C19_PairsParse ==
    WktCalled =>
        /\ (WktIsText /\ \E i \in 1..Len(C19_Pairs(wktString.chars)) :
                             ~C19_IsTwoNumbers(C19_Pairs(wktString.chars)[i]))
              => wktOut.status = "thrown"
        /\ \A i \in 1..Len(wktOut.log) :
              /\ wktOut.log[i][1] \notin {Undefined, NaN}
              /\ wktOut.log[i][2] \notin {Undefined, NaN}

(***************************************************************************)
(* C20: parseWkt throws whenever the parentheses of the text after the     *)
(* keyword do not nest as expected, two levels for POLYGON and three for   *)
(* MULTIPOLYGON: coordinates stand at the innermost level only, no level   *)
(* is deeper, the parentheses balance, and nothing follows the last one.   *)
(***************************************************************************)
RECURSIVE C20_DepthAfter(_, _)
\* the number of parentheses open after the first i characters
C20_DepthAfter(body, i) ==
    IF i = 0 THEN 0
    ELSE C20_DepthAfter(body, i - 1)
         + (IF body[i] = "(" THEN 1 ELSE IF body[i] = ")" THEN -1 ELSE 0)

C20_WellNested(body, depth) ==
    /\ Len(body) > 0
    /\ \A i \in 1..Len(body) :
          LET d == C20_DepthAfter(body, i)
          IN  /\ d >= 0 /\ d <= depth
              /\ (d = 0) <=> (i = Len(body))
              /\ (~IsSpace(body[i]) /\ body[i] \notin {"(", ")", ","}) => d = depth
              /\ body[i] = "," => d >= 1

\* the text after the keyword of a text that starts with one
C20_Body(chars) ==
    LET text == Trim(C18_AfterSrid(chars))
        keyword == IF StartsWith(ToUpperCase(text), KeywordMultiPolygon)
                   THEN KeywordMultiPolygon ELSE KeywordPolygon
    IN  TrimStart(SubSeq(text, Len(keyword) + 1, Len(text)))

C20_Depth(chars) ==
    IF StartsWith(ToUpperCase(Trim(C18_AfterSrid(chars))), KeywordMultiPolygon)
    THEN 3 ELSE 2

C20_NestingChecked ==
    (/\ WktCalled
     /\ WktIsText
     /\ HasKeyword(Trim(C18_AfterSrid(wktString.chars)))
     /\ ~C20_WellNested(C20_Body(wktString.chars), C20_Depth(wktString.chars)))
        => wktOut.status = "thrown"

(***************************************************************************)
(* The rings and pairs of a POLYGON text, read off its parentheses         *)
(***************************************************************************)
\* the positions of the parentheses that open a ring, in increasing order
C21_RingOpens(body) ==
    LET opens == {i \in 1..Len(body) : body[i] = "(" /\ C20_DepthAfter(body, i) = 2}
    IN  [r \in 1..Cardinality(opens) |->
            CHOOSE i \in opens : Cardinality({h \in opens : h < i}) = r - 1]

\* the text between the parentheses of ring r
C21_RingText(body, r) ==
    LET open == C21_RingOpens(body)[r]
        close == CHOOSE j \in (open + 1)..Len(body) :
                     body[j] = ")" /\ \A h \in (open + 1)..(j - 1) : body[h] # ")"
    IN  SubSeq(body, open + 1, close - 1)

\* the pairs of ring r, each the sequence of its tokens
C21_PairsOf(body, r) ==
    LET pairs == Split(C21_RingText(body, r), << "," >>)
    IN  [j \in 1..Len(pairs) |-> C19_TokensOf(pairs[j])]

C21_IsPolygonText(chars) ==
    /\ StartsWith(ToUpperCase(Trim(C18_AfterSrid(chars))), KeywordPolygon)
    /\ C20_WellNested(C20_Body(chars), 2)

\* a POLYGON text whose rings are lists of pairs of two numbers, with one
\* comma between two rings
C21_WellFormed(chars) ==
    /\ C21_IsPolygonText(chars)
    /\ LET body == C20_Body(chars)
           k == Len(C21_RingOpens(body))
       IN  /\ k >= 1
           /\ Cardinality({i \in 1..Len(body) :
                              body[i] = "," /\ C20_DepthAfter(body, i) = 1}) = k - 1
           /\ \A r \in 1..k : \A j \in 1..Len(C21_PairsOf(body, r)) :
                 LET tokens == C21_PairsOf(body, r)[j]
                 IN  /\ Len(tokens) = 2
                     /\ StringToNumber(tokens[1]) # NaN
                     /\ StringToNumber(tokens[2]) # NaN

\* the projection function applied to pair j of ring r
C21_Projected(body, r, j) ==
    ToWGS84(StringToNumber(C21_PairsOf(body, r)[j][1]),
            StringToNumber(C21_PairsOf(body, r)[j][2]), TRUE).items[1]

RECURSIVE C21_CallsFrom(_, _)
\* the arguments of the projection function, one call for each pair of the
\* rings from r on, in the order of the text
C21_CallsFrom(body, r) ==
    IF r > Len(C21_RingOpens(body)) THEN << >>
    ELSE [j \in 1..Len(C21_PairsOf(body, r)) |->
             << StringToNumber(C21_PairsOf(body, r)[j][1]),
                StringToNumber(C21_PairsOf(body, r)[j][2]) >>]
         \o C21_CallsFrom(body, r + 1)

(***************************************************************************)
(* C21: for a well-formed POLYGON text of k rings with n1..nk pairs,       *)
(* parseWkt returns a POLYGON of k rings with n1..nk coordinates,          *)
(* coordinate j of ring i being the projection of pair j of ring i; the    *)
(* projection function is called once for each pair, in the order of the   *)
(* text, and a ring whose first and last pair are equal has equal first    *)
(* and last coordinates.                                                   *)
(***************************************************************************)
C21_PolygonDecoded ==
    (WktCalled /\ WktIsText /\ C21_WellFormed(wktString.chars)) =>
        LET body == C20_Body(wktString.chars)
            k == Len(C21_RingOpens(body))
        IN  /\ wktOut.status = "returned"
            /\ wktOut.geometry.type = "POLYGON"
            /\ wktOut.geometry.coordinates =
                  Arr([r \in 1..k |->
                         Arr([j \in 1..Len(C21_PairsOf(body, r)) |->
                                C21_Projected(body, r, j)])])
            /\ wktOut.log = C21_CallsFrom(body, 1)
            /\ \A r \in 1..k :
                  LET ring == wktOut.geometry.coordinates.items[r].items
                      n == Len(C21_PairsOf(body, r))
                  IN  C21_PairsOf(body, r)[1] = C21_PairsOf(body, r)[n]
                          => ring[1] = ring[Len(ring)]

\* parseWkt has returned the polygon of a text with an SRID prefix, a ring
\* of four pairs and a ring of three
C21_Witness ==
    /\ WktCalled
    /\ WktIsText
    /\ C21_WellFormed(wktString.chars)
    /\ C18_AfterSrid(wktString.chars) # wktString.chars
    /\ wktOut.status = "returned"
    /\ Len(wktOut.geometry.coordinates.items) = 2
    /\ Len(wktOut.geometry.coordinates.items[1].items) = 4
    /\ Len(wktOut.geometry.coordinates.items[2].items) = 3
    /\ wktOut.geometry.coordinates.items[1].items[1] = Pt(2, 1)
    /\ wktOut.geometry.coordinates.items[2].items[2] = Pt(10, 9)

(***************************************************************************)
(* extractVertices under test: one call on a geometry of the pool below.   *)
(* The rings are made of four coordinates, two of them equal up to the     *)
(* eighth decimal; a polygon has its outer ring alone or with a hole, a    *)
(* multipolygon has two polygons.                                          *)
(***************************************************************************)
VertexPoints == {Pt(0, 0), Pt(0, 1), Pt(1, 1), Pt(Nudge, 0)}
VertexHole == Arr(<< Pt(5, 5), Pt(5, 6), Pt(6, 6), Pt(5, 5) >>)

VertexRings(maxLen) ==
    UNION {{Arr(ring) : ring \in [1..n -> VertexPoints]} : n \in 1..maxLen}

VertexGeometries ==
    {Polygon(<< outer >>) : outer \in VertexRings(MaxRingLen)}
    \cup {Polygon(<< outer, VertexHole >>) : outer \in VertexRings(MaxRingLen)}
    \cup {MultiPolygon(<< << first >>, << second, VertexHole >> >>) :
             first \in VertexRings(MaxRingLen - 1),
             second \in VertexRings(MaxRingLen - 2)}

VerticesReturned(vertices) == [status |-> "returned", vertices |-> vertices]

InitVertices ==
    /\ vxGeometry \in VertexGeometries
    /\ vxOut = NotParsed
    /\ EncoderIdle
    /\ ExportIdle
    /\ DownloadIdle
    /\ ParserIdle
    /\ AppIdle
    /\ SearchIdle
    /\ AnalyticsIdle

\* extractVertices(vxGeometry)
ExtractVerticesCall ==
    /\ vxOut = NotParsed
    /\ vxOut' = VerticesReturned(ExtractVertices(vxGeometry))
    /\ UNCHANGED <<encVars, expVars, dlVars, wktVars, vxGeometry, appVars, searchVars,
                   analyticsVars>>

NextVertices == ExtractVerticesCall

SpecVertices == InitVertices /\ [][NextVertices]_vars

(***************************************************************************)
(* Reading an extractVertices call                                         *)
(***************************************************************************)
VerticesCalled == vxOut.status = "returned"

\* two coordinates whose texts with 8 decimals are equal
C22_SameKey(a, b) ==
    /\ a.lat - b.lat \in {0, Nudge, 0 - Nudge}
    /\ a.lng - b.lng \in {0, Nudge, 0 - Nudge}

\* the coordinates of a sequence that have no earlier one with the same
\* key, in the order of the sequence
C22_FirstSeen(coords) ==
    LET kept == {i \in 1..Len(coords) :
                    \A j \in 1..(i - 1) : ~C22_SameKey(coords[j], coords[i])}
    IN  [r \in 1..Cardinality(kept) |->
            coords[CHOOSE i \in kept : Cardinality({h \in kept : h < i}) = r - 1]]

C22_WithoutLast(ring) == [i \in 1..(Len(ring.items) - 1) |-> ring.items[i]]

(***************************************************************************)
(* C22: for a POLYGON, extractVertices returns the outer ring without its  *)
(* last element and without every later coordinate whose key, rounded to   *)
(* 8 decimals, equals that of an earlier one, in first-seen order; no      *)
(* vertex of a hole appears, no two vertices of the result have the same   *)
(* key, and the outer ring (0,0),(0,1),(1,1),(0,0) gives (0,0),(0,1),(1,1).*)
(***************************************************************************)
C22_PolygonVertices ==
    (VerticesCalled /\ vxGeometry.type = "POLYGON") =>
        LET outer == vxGeometry.coordinates.items[1]
            result == vxOut.vertices
        IN  /\ result = C22_FirstSeen(C22_WithoutLast(outer))
            /\ \A i \in 1..Len(result) :
                  \A h \in 1..Len(VertexHole.items) : result[i] # VertexHole.items[h]
            /\ \A i, j \in 1..Len(result) :
                  i # j => ~C22_SameKey(result[i], result[j])
            /\ outer = Arr(<< Pt(0, 0), Pt(0, 1), Pt(1, 1), Pt(0, 0) >>)
                  => result = << Pt(0, 0), Pt(0, 1), Pt(1, 1) >>

\* a polygon with a hole whose outer ring holds (0,0) and then 4e-9 next to
\* it: the second one was left out
C22_Witness ==
    /\ VerticesCalled
    /\ vxGeometry = Polygon(<< Arr(<< Pt(0, 0), Pt(0, 1), Pt(Nudge, 0), Pt(0, 0) >>),
                               VertexHole >>)
    /\ vxOut.vertices = << Pt(0, 0), Pt(0, 1) >>

\* the outer rings of a multipolygon, each without its last element
C23_OuterRings(g) ==
    [p \in 1..Len(g.coordinates.items) |->
        C22_WithoutLast(g.coordinates.items[p].items[1])]

RECURSIVE C23_Concat(_, _)
C23_Concat(seqs, p) == IF p > Len(seqs) THEN << >> ELSE seqs[p] \o C23_Concat(seqs, p + 1)

RECURSIVE C23_ConcatFirstSeen(_, _)
C23_ConcatFirstSeen(seqs, p) ==
    IF p > Len(seqs) THEN << >>
    ELSE C22_FirstSeen(seqs[p]) \o C23_ConcatFirstSeen(seqs, p + 1)

(***************************************************************************)
(* C23 as stated: for a MULTIPOLYGON, extractVertices removes duplicates   *)
(* within the outer ring of each polygon only and concatenates the         *)
(* results: a vertex of the outer rings of two polygons appears once for   *)
(* each of them.                                                           *)
(***************************************************************************)
C23_PerPolygon ==
    (VerticesCalled /\ vxGeometry.type = "MULTIPOLYGON") =>
        vxOut.vertices = C23_ConcatFirstSeen(C23_OuterRings(vxGeometry), 1)

(***************************************************************************)
(* C23 as amended: for a MULTIPOLYGON, extractVertices removes duplicates  *)
(* across the outer rings of all polygons: the result is the concatenation *)
(* of the outer rings, each without its last element, without every        *)
(* coordinate whose key equals that of an earlier one, so a vertex of the  *)
(* outer rings of two polygons appears once, at its first place.           *)
(***************************************************************************)
C23_AcrossPolygons ==
    (VerticesCalled /\ vxGeometry.type = "MULTIPOLYGON") =>
        vxOut.vertices = C22_FirstSeen(C23_Concat(C23_OuterRings(vxGeometry), 1))

\* two polygons whose outer rings both hold (0,1): it was returned once
C23_Witness ==
    /\ VerticesCalled
    /\ vxGeometry = MultiPolygon(<< << Arr(<< Pt(0, 0), Pt(0, 1), Pt(0, 0) >>) >>,
                                    << Arr(<< Pt(0, 1), Pt(1, 1) >>), VertexHole >> >>)
    /\ vxOut.vertices = << Pt(0, 0), Pt(0, 1) >>

(***************************************************************************)
(* App (app.js): the parcel list, the view flags and the download          *)
(* buttons.  A handler runs to its first await in one step; what follows   *)
(* an await runs when the awaited promise settles.  The map, the page and  *)
(* the analytics are external code: a call into them returns or throws.    *)
(***************************************************************************)
\* what uldkService.getParcelById / getParcelByCoordinates resolve with:
\*   {id: "A", wkt: "POLYGON((1 2,3 4,5 6,1 2))"}
\*   {id: "B", wkt: "SRID=2180;MULTIPOLYGON(((1 2,3 4,1 2)),((5 6,7 8,5 6)))"}
\*   {id: "C", wkt: "LINESTRING(0 0, 1 1)"}
LookupResults ==
    {[id |-> "A",
      wkt |-> Str(KeywordPolygon \o
                  << "(", "(", "1", " ", "2", ",", "3", " ", "4", ",", "5", " ", "6",
                     ",", "1", " ", "2", ")", ")" >>)],
     [id |-> "B",
      wkt |-> Str(<< "S", "R", "I", "D", "=", "2", "1", "8", "0", ";" >> \o
                  KeywordMultiPolygon \o
                  << "(", "(", "(", "1", " ", "2", ",", "3", " ", "4", ",", "1", " ",
                     "2", ")", ")", ",", "(", "(", "5", " ", "6", ",", "7", " ", "8",
                     ",", "5", " ", "6", ")", ")", ")" >>)],
     [id |-> "C",
      wkt |-> Str(<< "L", "I", "N", "E", "S", "T", "R", "I", "N", "G", "(", "0", " ",
                     "0", ",", " ", "1", " ", "1", ")" >>)]}

\* the try block of _addParcelToList up to the push: parseWkt(result.wkt),
\* extractVertices(geometry) and the parcel object; thrown when parseWkt threw
ParcelOf(result, decoded) ==
    IF decoded.status = "thrown" THEN [status |-> "thrown"]
    ELSE [status |-> "made",
          parcel |-> [id |-> result.id,
                      wkt |-> result.wkt,
                      geometry |-> decoded.geometry,
                      vertices |-> ExtractVertices(decoded.geometry)]]

\* the same for each lookup result, computed once
ParcelsOfResults ==
    [result \in LookupResults |->
        [strict \in BOOLEAN |-> ParcelOf(result, ParseWkt(result.wkt, strict))]]

AddParcelUnchecked(list, result, drawn, strict) ==
    CHOOSE res \in
      {IF made.status = "thrown"
       THEN [parcels |-> list, outcome |-> "thrown", status |-> "error"]
       ELSE IF ~drawn
       THEN [parcels |-> Append(list, made.parcel), outcome |-> "thrown",
             status |-> "error"]
       ELSE [parcels |-> Append(list, made.parcel), outcome |-> "added",
             status |-> "success"] :
       made \in {ParcelsOfResults[result][strict]}} : TRUE

\* _addParcelToList(result): the list it leaves and how it ended, "thrown"
\* for the Error of its catch block.  drawn tells whether the calls after
\* the push (_redrawMap, fitToCoordinates, the page updates, trackParcelAdd)
\* all returned.
AddParcelToList(list, result, drawn, strict) ==
    IF \E i \in 1..Len(list) : list[i].id = result.id
    THEN [parcels |-> list, outcome |-> "duplicate", status |-> "error"]
    ELSE CHOOSE res \in
           {IF made.status = "thrown"
            THEN [parcels |-> list, outcome |-> "thrown", status |-> "error"]
            ELSE IF ~drawn
            THEN [parcels |-> Append(list, made.parcel), outcome |-> "thrown",
                  status |-> "error"]
            ELSE [parcels |-> Append(list, made.parcel), outcome |-> "added",
                  status |-> "success"] :
            made \in {ParcelsOfResults[result][strict]}} : TRUE

Added(before, res) ==
    [outcome |-> res.outcome, unchanged |-> (res.parcels = before),
     grown |-> (Len(res.parcels) = Len(before) + 1
                /\ SubSeq(res.parcels, 1, Len(before)) = before)]

\* _addParcelById, and _addParcelByCoordinates, _addParcelByAddress and
\* _handleMapClick outside queue mode, up to the await of the lookup
AddParcelDirect ==
    /\ lookups < MaxLookups
    /\ lookups' = lookups + 1
    /\ appStatus' = "loading"
    /\ addButtonLoading' = TRUE
    /\ UNCHANGED <<appParcels, showingPolygons, showingPoints, gpkgPending>>
    /\ lastAdd' = NoAdd
    /\ lastDownload' = NoDownload
    /\ lastReport' = NoReport
    /\ UNCHANGED <<pureVars, queueVars, searchVars, analyticsVars>>

\* the lookup rejected: catch and finally of the handler
LookupRejected ==
    /\ lookups > 0
    /\ lookups' = lookups - 1
    /\ appStatus' = "error"
    /\ addButtonLoading' = FALSE
    /\ UNCHANGED <<appParcels, showingPolygons, showingPoints, gpkgPending>>
    /\ lastAdd' = NoAdd
    /\ lastDownload' = NoDownload
    /\ lastReport' = NoReport
    /\ UNCHANGED <<pureVars, queueVars, searchVars, analyticsVars>>

\* the lookup resolved: await this._addParcelToList(result), then catch
\* and finally of the handler
LookupResolved ==
    /\ lookups > 0
    /\ \E result \in LookupResults, drawn \in BOOLEAN, strict \in BOOLEAN :
          \E res \in {AddParcelToList(appParcels, result, drawn, strict)} :
              /\ appParcels' = res.parcels
              /\ appStatus' = res.status
              /\ lastAdd' = Added(appParcels, res)
    /\ lookups' = lookups - 1
    /\ addButtonLoading' = FALSE
    /\ UNCHANGED <<showingPolygons, showingPoints, gpkgPending>>
    /\ lastDownload' = NoDownload
    /\ lastReport' = NoReport
    /\ UNCHANGED <<pureVars, queueVars, searchVars, analyticsVars>>

RECURSIVE FilterOutId(_, _)
\* list.filter((p) => p.id !== id)
FilterOutId(list, id) ==
    IF Len(list) = 0 THEN << >>
    ELSE (IF list[1].id # id THEN << list[1] >> ELSE << >>)
         \o FilterOutId(Tail(list), id)

\* _removeParcel(parcelId), from the remove button of a list entry
RemoveParcel ==
    /\ \E i \in 1..Len(appParcels) :
          appParcels' = FilterOutId(appParcels, appParcels[i].id)
    /\ appStatus' = IF Len(appParcels') = 0 THEN "hidden" ELSE "success"
    /\ UNCHANGED <<showingPolygons, showingPoints, lookups, gpkgPending,
                   addButtonLoading>>
    /\ lastAdd' = NoAdd
    /\ lastDownload' = NoDownload
    /\ lastReport' = NoReport
    /\ UNCHANGED <<pureVars, queueVars, searchVars, analyticsVars>>

\* _clearAllParcels()
ClearAllParcels ==
    /\ appParcels' = << >>
    /\ appStatus' = "hidden"
    /\ UNCHANGED <<showingPolygons, showingPoints, lookups, gpkgPending,
                   addButtonLoading>>
    /\ lastAdd' = NoAdd
    /\ lastDownload' = NoDownload
    /\ lastReport' = NoReport
    /\ UNCHANGED <<pureVars, queueVars, searchVars, analyticsVars>>

\* _togglePolygons()
TogglePolygons ==
    /\ showingPolygons' = IF Len(appParcels) = 0 THEN showingPolygons ELSE ~showingPolygons
    /\ UNCHANGED <<appParcels, showingPoints, appStatus, lookups, gpkgPending,
                   addButtonLoading>>
    /\ lastAdd' = NoAdd
    /\ lastDownload' = NoDownload
    /\ lastReport' = NoReport
    /\ UNCHANGED <<pureVars, queueVars, searchVars, analyticsVars>>

\* _togglePoints()
TogglePoints ==
    /\ showingPoints' = IF Len(appParcels) = 0 THEN showingPoints ELSE ~showingPoints
    /\ UNCHANGED <<appParcels, showingPolygons, appStatus, lookups, gpkgPending,
                   addButtonLoading>>
    /\ lastAdd' = NoAdd
    /\ lastDownload' = NoDownload
    /\ lastReport' = NoReport
    /\ UNCHANGED <<pureVars, queueVars, searchVars, analyticsVars>>

\* what a download request did: whether it called its exporter, with which
\* list and options, and the status it left
Download(format, invoked, status) ==
    [format |-> format, invoked |-> invoked, status |-> status,
     parcelCount |-> Len(appParcels),
     includePolygons |-> showingPolygons, includePoints |-> showingPoints]

DownloadRefusedWhenEmpty ==
    Len(appParcels) = 0

\* the two guards of a download handler
DownloadRefused ==
    Len(appParcels) = 0 \/ (~showingPolygons /\ ~showingPoints)

\* the status a synchronous download handler leaves: the exporter returns
\* or throws into the catch block
DownloadStatus(returned) ==
    IF DownloadRefused \/ ~returned THEN "error" ELSE "success"

\* _handleDownloadKml()
HandleDownloadKml ==
    /\ \E returned \in BOOLEAN :
          /\ appStatus' = DownloadStatus(returned)
          /\ lastDownload' = Download("kml", ~DownloadRefused, DownloadStatus(returned))
    /\ UNCHANGED <<appParcels, showingPolygons, showingPoints, lookups, gpkgPending,
                   addButtonLoading>>
    /\ lastAdd' = NoAdd
    /\ lastReport' = NoReport
    /\ UNCHANGED <<pureVars, queueVars, searchVars, analyticsVars>>

\* _handleDownloadGeojson()
HandleDownloadGeojson ==
    /\ \E returned \in BOOLEAN :
          /\ appStatus' = DownloadStatus(returned)
          /\ lastDownload' = Download("geojson", ~DownloadRefused, DownloadStatus(returned))
    /\ UNCHANGED <<appParcels, showingPolygons, showingPoints, lookups, gpkgPending,
                   addButtonLoading>>
    /\ lastAdd' = NoAdd
    /\ lastReport' = NoReport
    /\ UNCHANGED <<pureVars, queueVars, searchVars, analyticsVars>>

\* _handleDownloadGpkg() up to its await
HandleDownloadGpkg ==
    /\ gpkgPending < MaxLookups
    /\ LET status == IF DownloadRefused THEN "error" ELSE "loading"
       IN  /\ appStatus' = status
           /\ lastDownload' = Download("gpkg", ~DownloadRefused, status)
    /\ gpkgPending' = IF DownloadRefused THEN gpkgPending ELSE gpkgPending + 1
    /\ UNCHANGED <<appParcels, showingPolygons, showingPoints, lookups,
                   addButtonLoading>>
    /\ lastAdd' = NoAdd
    /\ lastReport' = NoReport
    /\ UNCHANGED <<pureVars, queueVars, searchVars, analyticsVars>>

\* downloadGpkgWithLayers settled: the rest of the try block, or the catch
GpkgDownloadSettled ==
    /\ gpkgPending > 0
    /\ gpkgPending' = gpkgPending - 1
    /\ \E fulfilled \in BOOLEAN :
          appStatus' = IF fulfilled THEN "success" ELSE "error"
    /\ UNCHANGED <<appParcels, showingPolygons, showingPoints, lookups,
                   addButtonLoading>>
    /\ lastAdd' = NoAdd
    /\ lastDownload' = NoDownload
    /\ lastReport' = NoReport
    /\ UNCHANGED <<pureVars, queueVars, searchVars, analyticsVars>>

InitApp ==
    /\ EncoderIdle
    /\ ExportIdle
    /\ DownloadIdle
    /\ ParserIdle
    /\ RestIdle

NextApp ==
    \/ AddParcelDirect
    \/ LookupRejected
    \/ LookupResolved
    \/ RemoveParcel
    \/ ClearAllParcels
    \/ TogglePolygons
    \/ TogglePoints
    \/ HandleDownloadKml
    \/ HandleDownloadGeojson
    \/ HandleDownloadGpkg
    \/ GpkgDownloadSettled

SpecApp == InitApp /\ [][NextApp]_vars

(***************************************************************************)
(* The coordinate queue of App and _processQueue.  The lookups of a run   *)
(* settle one by one, other handlers running in between; when the last    *)
(* one has settled, the loop over the results, _clearQueue() and the       *)
(* report run without yielding to another handler (_addParcelToList has no *)
(* await inside).                                                          *)
(***************************************************************************)
MaxQueueIds == 2

\* _addToQueue(lat, lng, label), from a map click, a coordinate search or an
\* address selection in queue mode
AddToQueue ==
    /\ nextQueueId <= MaxQueueIds
    /\ nextQueueId' = nextQueueId + 1
    /\ coordinateQueue' = << [id |-> nextQueueId] >> \o coordinateQueue
    /\ appStatus' = "success"
    /\ UNCHANGED <<appParcels, showingPolygons, showingPoints, lookups, gpkgPending,
                   addButtonLoading, run>>
    /\ lastAdd' = NoAdd
    /\ lastDownload' = NoDownload
    /\ lastReport' = NoReport
    /\ UNCHANGED <<pureVars, searchVars, analyticsVars>>

\* _removeFromQueue(id), from the remove button of a queue entry
RemoveFromQueue ==
    /\ \E i \in 1..Len(coordinateQueue) :
          coordinateQueue' = FilterOutId(coordinateQueue, coordinateQueue[i].id)
    /\ UNCHANGED <<appParcels, showingPolygons, showingPoints, appStatus, lookups,
                   gpkgPending, addButtonLoading, nextQueueId, run>>
    /\ lastAdd' = NoAdd
    /\ lastDownload' = NoDownload
    /\ lastReport' = NoReport
    /\ UNCHANGED <<pureVars, searchVars, analyticsVars>>

\* _clearQueue(), from the clear button of the queue
ClearQueue ==
    /\ coordinateQueue' = << >>
    /\ appStatus' = "hidden"
    /\ UNCHANGED <<appParcels, showingPolygons, showingPoints, lookups, gpkgPending,
                   addButtonLoading, nextQueueId, run>>
    /\ lastAdd' = NoAdd
    /\ lastDownload' = NoDownload
    /\ lastReport' = NoReport
    /\ UNCHANGED <<pureVars, searchVars, analyticsVars>>

RECURSIVE QueueIds(_)
\* the ids of the items of a queue, in order
QueueIds(queue) ==
    IF Len(queue) = 0 THEN << >>
    ELSE << queue[1].id >> \o QueueIds(Tail(queue))

\* _processQueue() up to the await of Promise.allSettled; the start button
\* is disabled while a run is in progress
ProcessQueue ==
    /\ run.phase = "idle"
    /\ IF Len(coordinateQueue) = 0
       THEN /\ appStatus' = "error"
            /\ run' = run
       ELSE /\ appStatus' = "loading"
            /\ run' = [phase |-> "lookups",
                       itemsToProcess |-> QueueIds(coordinateQueue),
                       pending |-> Len(coordinateQueue)]
    /\ UNCHANGED <<appParcels, showingPolygons, showingPoints, lookups, gpkgPending,
                   addButtonLoading, coordinateQueue, nextQueueId>>
    /\ lastAdd' = NoAdd
    /\ lastDownload' = NoDownload
    /\ lastReport' = NoReport
    /\ UNCHANGED <<pureVars, searchVars, analyticsVars>>

\* a lookup of the run settled and others are pending: completedCount++ and
\* updateProgress()
QueueLookupSettled ==
    /\ run.phase = "lookups"
    /\ run.pending > 1
    /\ run' = [run EXCEPT !.pending = @ - 1]
    /\ appStatus' = "loading"
    /\ UNCHANGED <<appParcels, showingPolygons, showingPoints, lookups, gpkgPending,
                   addButtonLoading, coordinateQueue, nextQueueId>>
    /\ lastAdd' = NoAdd
    /\ lastDownload' = NoDownload
    /\ lastReport' = NoReport
    /\ UNCHANGED <<pureVars, searchVars, analyticsVars>>

\* what the lookup of a queue item ended with, and whether the calls after
\* the push of its parcel returned
QueueOutcomes ==
    {[success |-> TRUE, result |-> result, drawn |-> drawn] :
        result \in LookupResults, drawn \in BOOLEAN}
    \cup {[success |-> FALSE, result |-> [id |-> "", wkt |-> Str(<< >>)], drawn |-> FALSE]}

\* the counters of a run before its loop
RunStart(list) ==
    [parcels |-> list, successCount |-> 0, errorCount |-> 0, appended |-> 0,
     grownByDuplicate |-> FALSE]

\* one fulfilled outcome of the loop: await this._addParcelToList(...), then
\* successCount++, or errorCount++ in the catch block
CountAdd(acc, res) ==
    [parcels |-> res.parcels,
     successCount |-> acc.successCount + (IF res.outcome = "thrown" THEN 0 ELSE 1),
     errorCount |-> acc.errorCount + (IF res.outcome = "thrown" THEN 1 ELSE 0),
     appended |-> acc.appended + (IF res.parcels = acc.parcels THEN 0 ELSE 1),
     grownByDuplicate |-> (acc.grownByDuplicate
                           \/ (res.outcome = "duplicate" /\ res.parcels # acc.parcels))]

\* the else branch of the loop
CountRejected(acc) ==
    [acc EXCEPT !.errorCount = @ + 1]

RECURSIVE AddOutcomes(_, _, _)
\* for (const outcome of results) { ... }
AddOutcomes(acc, results, strict) ==
    IF Len(results) = 0 THEN acc
    ELSE AddOutcomes(IF results[1].success
                     THEN CountAdd(acc, AddParcelToList(acc.parcels, results[1].result,
                                                        results[1].drawn, strict))
                     ELSE CountRejected(acc),
                     Tail(results), strict)

\* the final status of a run
FinalStatus(total, errorCount) ==
    IF errorCount = 0 THEN "success"
    ELSE IF errorCount = total THEN "error" ELSE "success"

\* what a run reported, with the ids it sent to the lookup service and the
\* ids its _clearQueue() removed from the queue
Report(total, counted, sent, removed) ==
    [total |-> total, successCount |-> counted.successCount,
     errorCount |-> counted.errorCount, appended |-> counted.appended,
     grownByDuplicate |-> counted.grownByDuplicate,
     sent |-> sent, removed |-> removed,
     status |-> FinalStatus(total, counted.errorCount)]

\* the set of the elements of a sequence
Elements(seq) == {seq[i] : i \in 1..Len(seq)}

\* the last lookup of the run settled: the loop over the results,
\* _clearQueue(), the button, trackQueueProcess and the final status
QueueRunFinished ==
    /\ run.phase = "lookups"
    /\ run.pending = 1
    /\ \E results \in [1..Len(run.itemsToProcess) -> QueueOutcomes], strict \in BOOLEAN :
          \E counted \in {AddOutcomes(RunStart(appParcels), results, strict)} :
              /\ appParcels' = counted.parcels
              /\ lastReport' = Report(Len(run.itemsToProcess), counted,
                                      Elements(run.itemsToProcess),
                                      Elements(QueueIds(coordinateQueue)))
              /\ appStatus' = FinalStatus(Len(run.itemsToProcess), counted.errorCount)
    /\ coordinateQueue' = << >>
    /\ run' = NoRun
    /\ UNCHANGED <<showingPolygons, showingPoints, lookups, gpkgPending,
                   addButtonLoading, nextQueueId>>
    /\ lastAdd' = NoAdd
    /\ lastDownload' = NoDownload
    /\ UNCHANGED <<pureVars, searchVars, analyticsVars>>

InitQueue ==
    /\ EncoderIdle
    /\ ExportIdle
    /\ DownloadIdle
    /\ ParserIdle
    /\ RestIdle

NextQueue ==
    \/ AddParcelDirect
    \/ LookupRejected
    \/ LookupResolved
    \/ RemoveParcel
    \/ ClearAllParcels
    \/ AddToQueue
    \/ RemoveFromQueue
    \/ ClearQueue
    \/ ProcessQueue
    \/ QueueLookupSettled
    \/ QueueRunFinished

SpecQueue == InitQueue /\ [][NextQueue]_vars

(***************************************************************************)
(* C24: adding a parcel is atomic with respect to the parcel list: when    *)
(* _addParcelToList ends with an error, raised by decoding or by any later *)
(* step, the list is the same as before the call, and the list grows by    *)
(* the new parcel only when the operation succeeds.                        *)
(***************************************************************************)
C24_AddAtomic ==
    /\ lastAdd.outcome = "thrown" => lastAdd.unchanged
    /\ (lastAdd.outcome # "none" /\ ~lastAdd.unchanged) =>
          (lastAdd.outcome = "added" /\ lastAdd.grown)

(***************************************************************************)
(* C25: an exporter is invoked only with a non-empty parcel list and with  *)
(* at least one of includePolygons, includePoints true; a download request *)
(* made with an empty list or with both flags false ends in an error       *)
(* status without calling any exporter.                                    *)
(***************************************************************************)
C25_ExporterGuarded ==
    lastDownload.format # "none" =>
        /\ lastDownload.invoked =>
              /\ lastDownload.parcelCount > 0
              /\ lastDownload.includePolygons \/ lastDownload.includePoints
        /\ (lastDownload.parcelCount = 0
             \/ (~lastDownload.includePolygons /\ ~lastDownload.includePoints)) =>
              /\ ~lastDownload.invoked
              /\ lastDownload.status = "error"
              /\ appStatus = "error"

\* a GeoPackage download refused for a non-empty list with both layers off
C25_Witness ==
    /\ lastDownload.format = "gpkg"
    /\ lastDownload.parcelCount > 0
    /\ ~lastDownload.includePolygons
    /\ ~lastDownload.includePoints
    /\ ~lastDownload.invoked
    /\ appStatus = "error"

RECURSIVE C28_IdsOf(_)
C28_IdsOf(list) ==
    IF Len(list) = 0 THEN << >> ELSE << list[1].id >> \o C28_IdsOf(Tail(list))

(***************************************************************************)
(* C28: in every reachable state the parcel list holds no two parcels with *)
(* the same id, under any interleaving of direct adds and queue runs,      *)
(* including several lookups in flight at once that return the same id; an *)
(* add whose id is already on the list leaves the list unchanged.          *)
(***************************************************************************)
C28_UniqueIds ==
    /\ \A i, j \in 1..Len(appParcels) :
          C28_IdsOf(appParcels)[i] = C28_IdsOf(appParcels)[j] => i = j
    /\ lastAdd.outcome = "duplicate" => lastAdd.unchanged
    /\ lastReport.total > 0 => ~lastReport.grownByDuplicate

\* a direct add found its id on the list while another direct lookup and a
\* queue run were still in flight
C28_Witness ==
    /\ lastAdd.outcome = "duplicate"
    /\ lookups = 1
    /\ run.phase = "lookups"
    /\ Len(appParcels) = 1

(***************************************************************************)
(* C29: every queue item that _processQueue removes from the coordinate    *)
(* queue when it finishes was sent to the parcel lookup service during     *)
(* that run, also when items are added while the lookups are in flight.    *)
(***************************************************************************)
C29_RemovedWereSent ==
    lastReport.total > 0 => lastReport.removed \subseteq lastReport.sent

(***************************************************************************)
(* C30: at the end of every queue-processing run the success count         *)
(* reported in the final status and to analytics equals the number of      *)
(* parcels the run appended to the parcel list.                            *)
(***************************************************************************)
C30_SuccessCountIsAppended ==
    lastReport.total > 0 => lastReport.successCount = lastReport.appended

(***************************************************************************)
(* SearchService.geocodeAddressDebounced / cancelPendingGeocode, called    *)
(* from App._handleSearchInput.  A call is armed while its timer runs,     *)
(* cleared when clearTimeout reached the running timer, in_flight between  *)
(* the timer callback's start and the settling of geocodeAddress, invoked  *)
(* once its callback ran.  superseded: cancelPendingGeocode or a newer     *)
(* geocodeAddressDebounced was called after this call.                     *)
(***************************************************************************)
MaxSearches == 3

\* clearTimeout(id): stops the timer when it has not fired yet
ClearTimeout(calls_, id) ==
    [i \in 1..Len(calls_) |->
        IF i = id /\ calls_[i].state = "armed"
        THEN [calls_[i] EXCEPT !.state = "cleared"]
        ELSE calls_[i]]

\* every call made so far has a later cancel or call
Superseded(calls_) ==
    [i \in 1..Len(calls_) |-> [calls_[i] EXCEPT !.superseded = TRUE]]

\* _handleSearchInput(value) for an address of three characters or more:
\* geocodeAddressDebounced(value, callback)
GeocodeAddressDebounced ==
    /\ Len(searches) < MaxSearches
    /\ addButtonLoading' = TRUE
    /\ searches' = Append(Superseded(IF debounceTimer # 0
                                     THEN ClearTimeout(searches, debounceTimer)
                                     ELSE searches),
                          [state |-> "armed", superseded |-> FALSE, stale |-> FALSE])
    /\ debounceTimer' = Len(searches) + 1
    /\ UNCHANGED <<searchResults, appParcels, showingPolygons, showingPoints, appStatus,
                   lookups, gpkgPending, lastAdd, lastDownload, queueVars, lastReport>>
    /\ UNCHANGED <<pureVars, analyticsVars>>

\* _handleSearchInput(value) otherwise: cancelPendingGeocode(), the loading
\* indicator off, the results hidden
CancelPendingGeocode ==
    /\ searches' = Superseded(IF debounceTimer # 0
                              THEN ClearTimeout(searches, debounceTimer)
                              ELSE searches)
    /\ debounceTimer' = 0
    /\ addButtonLoading' = FALSE
    /\ searchResults' = 0
    /\ UNCHANGED <<appParcels, showingPolygons, showingPoints, appStatus,
                   lookups, gpkgPending, lastAdd, lastDownload, queueVars, lastReport>>
    /\ UNCHANGED <<pureVars, analyticsVars>>

\* the debounce timer of a call fires: the timer callback starts
\* geocodeAddress(address) and awaits it
DebounceTimerFired ==
    /\ \E i \in 1..Len(searches) :
          /\ searches[i].state = "armed"
          /\ searches' = [searches EXCEPT ![i].state = "in_flight"]
    /\ UNCHANGED <<debounceTimer, searchResults, addButtonLoading, appParcels,
                   showingPolygons, showingPoints, appStatus, lookups, gpkgPending,
                   lastAdd, lastDownload, queueVars, lastReport>>
    /\ UNCHANGED <<pureVars, analyticsVars>>

\* geocodeAddress settled (it resolves also on failure): callback(results)
\* turns the loading indicator off and shows the results
GeocodeSettled ==
    /\ \E i \in 1..Len(searches) :
          /\ searches[i].state = "in_flight"
          /\ searches' = [searches EXCEPT ![i].state = "invoked",
                                          ![i].stale = searches[i].superseded]
          /\ searchResults' = i
    /\ addButtonLoading' = FALSE
    /\ UNCHANGED <<debounceTimer, appParcels, showingPolygons, showingPoints,
                   appStatus, lookups, gpkgPending, lastAdd, lastDownload, queueVars,
                   lastReport>>
    /\ UNCHANGED <<pureVars, analyticsVars>>

InitSearch ==
    /\ EncoderIdle
    /\ ExportIdle
    /\ DownloadIdle
    /\ ParserIdle
    /\ RestIdle

NextSearch ==
    \/ GeocodeAddressDebounced
    \/ CancelPendingGeocode
    \/ DebounceTimerFired
    \/ GeocodeSettled

SpecSearch == InitSearch /\ [][NextSearch]_vars

(***************************************************************************)
(* C26: once cancelPendingGeocode has been called, or a newer              *)
(* geocodeAddressDebounced call has been made, the callback of an earlier  *)
(* call is never invoked afterwards, also when that call's timer had       *)
(* already fired and its request was still in flight.                      *)
(***************************************************************************)
C26_NoStaleCallback ==
    \A i \in 1..Len(searches) : ~searches[i].stale

(***************************************************************************)
(* AnalyticsService: initialize(), and the clicks on the accept and the    *)
(* decline button of the consent banner.  Every initialize() call on a     *)
(* page with the banner adds one click listener to each button; a click    *)
(* runs all of them.                                                       *)
(***************************************************************************)
MaxListeners == 5
MaxEvents == 6

LoadGoogleAnalyticsUnguarded(ga) ==
    IF ~gaConfigured THEN ga
    ELSE [initialized |-> TRUE, scripts |-> ga.scripts + 1]

\* _loadGoogleAnalytics(): the flag _initialized and the scripts in
\* document.head it leaves
LoadGoogleAnalytics(ga) ==
    IF ga.initialized THEN ga
    ELSE IF ~gaConfigured THEN ga
    ELSE [initialized |-> TRUE, scripts |-> ga.scripts + 1]

RECURSIVE AcceptListeners(_, _)
\* the accept listeners of a click, one after the other: each calls
\* _setConsent(true) and _loadGoogleAnalytics()
AcceptListeners(ga, count) ==
    IF count = 0 THEN ga
    ELSE AcceptListeners(LoadGoogleAnalytics(ga), count - 1)

\* initialize()
Initialize ==
    /\ \E present \in BOOLEAN :
          /\ present => listeners < MaxListeners
          /\ listeners' = IF present THEN listeners + 1 ELSE listeners
          /\ bannerShown' = IF present /\ storedConsent = "null" THEN TRUE
                            ELSE bannerShown
    /\ consentGiven' = (storedConsent = "true")
    /\ everConsented' = (everConsented \/ storedConsent = "true")
    /\ \E ga \in {IF storedConsent = "true"
                  THEN LoadGoogleAnalytics([initialized |-> gaInitialized,
                                            scripts |-> scripts])
                  ELSE [initialized |-> gaInitialized, scripts |-> scripts]} :
          /\ gaInitialized' = ga.initialized
          /\ scripts' = ga.scripts
    /\ UNCHANGED <<storedConsent, gaConfigured, eventsSent>>
    /\ UNCHANGED <<pureVars, appVars, searchVars>>

\* a click on the accept button
AcceptClicked ==
    /\ listeners > 0
    /\ storedConsent' = "true"
    /\ consentGiven' = TRUE
    /\ everConsented' = TRUE
    /\ bannerShown' = FALSE
    /\ \E ga \in {AcceptListeners([initialized |-> gaInitialized, scripts |-> scripts],
                                  listeners)} :
          /\ gaInitialized' = ga.initialized
          /\ scripts' = ga.scripts
    /\ UNCHANGED <<gaConfigured, listeners, eventsSent>>
    /\ UNCHANGED <<pureVars, appVars, searchVars>>

\* a click on the decline button
DeclineClicked ==
    /\ listeners > 0
    /\ storedConsent' = "false"
    /\ consentGiven' = FALSE
    /\ bannerShown' = FALSE
    /\ UNCHANGED <<gaInitialized, gaConfigured, scripts, listeners, everConsented,
                   eventsSent>>
    /\ UNCHANGED <<pureVars, appVars, searchVars>>

\* trackEvent(eventName, params): in debug mode the event is only logged
TrackEvent ==
    /\ eventsSent < MaxEvents
    /\ \E debug \in BOOLEAN :
          eventsSent' = IF ~debug /\ consentGiven /\ gaInitialized
                        THEN eventsSent + 1 ELSE eventsSent
    /\ UNCHANGED <<storedConsent, consentGiven, gaInitialized, gaConfigured, scripts,
                   listeners, bannerShown, everConsented>>
    /\ UNCHANGED <<pureVars, appVars, searchVars>>

\* a page load: the consent stored by an earlier visit, if any, and whether
\* the build carries a measurement id
InitAnalytics ==
    /\ EncoderIdle
    /\ ExportIdle
    /\ DownloadIdle
    /\ ParserIdle
    /\ VertexIdle
    /\ AppIdle
    /\ SearchIdle
    /\ storedConsent \in {"null", "true", "false"}
    /\ gaConfigured \in BOOLEAN
    /\ consentGiven = FALSE
    /\ gaInitialized = FALSE
    /\ scripts = 0
    /\ listeners = 0
    /\ bannerShown = FALSE
    /\ everConsented = FALSE
    /\ eventsSent = 0

NextAnalytics ==
    \/ Initialize
    \/ AcceptClicked
    \/ DeclineClicked
    \/ TrackEvent

SpecAnalytics == InitAnalytics /\ [][NextAnalytics]_vars

(***************************************************************************)
(* C27: over any sequence of initialize, accept and decline actions, the   *)
(* analytics script is loaded only after consent has been given (stored    *)
(* consent equal to true at initialize, or the accept action), and it is   *)
(* loaded at most once.                                                    *)
(***************************************************************************)
C27_LoadedOnceAfterConsent ==
    /\ scripts <= 1
    /\ scripts >= 1 => everConsented
    /\ gaInitialized <=> scripts = 1
    /\ eventsSent > 0 => scripts = 1

\* the script is there after a click that ran several accept listeners
C27_Witness ==
    /\ scripts = 1
    /\ listeners >= 2
    /\ storedConsent = "true"
    /\ consentGiven

====
